---- MODULE Spec2Model ----
(***************************************************************************)
(* Model of the two-stage invoice validation pipeline:                     *)
(*   src/src/validator.py        InvoiceValidator (rule engine)            *)
(*   src/src/smart_validator.py  SmartValidator (rule engine + classifier) *)
(*   src/src/models.py           Invoice, LineItem, ValidationResult       *)
(*                                                                         *)
(* Money fields are Python floats (IEEE-754 binary64).  The reconciliation *)
(* checks compare float differences with the float literal 0.01, so the    *)
(* model carries binary64 values exactly: a float is a sign, an integer    *)
(* mantissa and a binary exponent, and every arithmetic operation rounds   *)
(* its exact result to 53 significant bits, ties to even.  Mantissas do    *)
(* not fit TLC's 32-bit integers, so they are kept as little-              *)
(* endian sequences of 15-bit limbs.                                       *)
(***************************************************************************)
EXTENDS Integers, Sequences, FiniteSets, TLC

----------------------------------------------------------------------------
(* Natural numbers of arbitrary size: little-endian limbs, radix 2^15,     *)
(* no zero limb at the high end; zero is the empty sequence.               *)

Base == 2^15

TailE(a) == IF a = <<>> THEN <<>> ELSE Tail(a)

HeadE(a) == IF a = <<>> THEN 0 ELSE Head(a)

Front(a) == SubSeq(a, 1, Len(a) - 1)

RECURSIVE BNorm(_)
BNorm(a) ==
    IF a = <<>> THEN <<>>
    ELSE IF a[Len(a)] = 0 THEN BNorm(Front(a)) ELSE a

RECURSIVE BFromInt(_)
BFromInt(n) == IF n = 0 THEN <<>> ELSE <<n % Base>> \o BFromInt(n \div Base)

RECURSIVE BToInt(_)
BToInt(a) == IF a = <<>> THEN 0 ELSE Head(a) + Base * BToInt(Tail(a))

RECURSIVE BAddC(_, _, _)
BAddC(a, b, c) ==
    IF a = <<>> /\ b = <<>> THEN (IF c = 0 THEN <<>> ELSE <<c>>)
    ELSE LET s == HeadE(a) + HeadE(b) + c
         IN  <<s % Base>> \o BAddC(TailE(a), TailE(b), s \div Base)

BAdd(a, b) == BAddC(a, b, 0)

RECURSIVE BSubC(_, _, _)
BSubC(a, b, c) ==
    IF a = <<>> THEN <<>>
    ELSE LET d == Head(a) - HeadE(b) - c
         IN  <<(d + Base) % Base>> \o BSubC(Tail(a), TailE(b), IF d < 0 THEN 1 ELSE 0)

\* a - b for a >= b
BSub(a, b) == BNorm(BSubC(a, b, 0))

RECURSIVE BLess(_, _)
BLess(a, b) ==
    IF Len(a) # Len(b) THEN Len(a) < Len(b)
    ELSE IF a = <<>> THEN FALSE
    ELSE IF a[Len(a)] # b[Len(b)] THEN a[Len(a)] < b[Len(b)]
    ELSE BLess(Front(a), Front(b))

RECURSIVE BMulSmallC(_, _, _)
BMulSmallC(a, k, c) ==
    IF a = <<>> THEN (IF c = 0 THEN <<>> ELSE <<c>>)
    ELSE LET p == Head(a) * k + c
         IN  <<p % Base>> \o BMulSmallC(Tail(a), k, p \div Base)

\* a * k for 0 <= k < Base
BMulSmall(a, k) == IF k = 0 THEN <<>> ELSE BMulSmallC(a, k, 0)

RECURSIVE BMul(_, _)
BMul(a, b) ==
    IF a = <<>> \/ b = <<>> THEN <<>>
    ELSE LET rest == BMul(a, Tail(b))
         IN  BAdd(BMulSmall(a, Head(b)),
                  IF rest = <<>> THEN <<>> ELSE <<0>> \o rest)

RECURSIVE BDivSmallR(_, _, _)
\* long division from the high limb; r is the running remainder
BDivSmallR(a, k, r) ==
    IF a = <<>> THEN [q |-> <<>>, r |-> r]
    ELSE LET cur  == r * Base + a[Len(a)]
             rest == BDivSmallR(Front(a), k, cur % k)
         IN  [q |-> rest.q \o <<cur \div k>>, r |-> rest.r]

\* quotient and remainder of a by k, 0 < k <= Base
BDivSmall(a, k) ==
    LET d == BDivSmallR(a, k, 0) IN [q |-> BNorm(d.q), r |-> d.r]

RECURSIVE ZeroLimbs(_)
ZeroLimbs(n) == IF n = 0 THEN <<>> ELSE <<0>> \o ZeroLimbs(n - 1)

\* a * 2^n
BShl(a, n) ==
    IF a = <<>> THEN <<>>
    ELSE ZeroLimbs(n \div 15) \o BMulSmall(a, 2^(n % 15))

\* floor(a / 2^n)
BShr(a, n) ==
    IF n \div 15 >= Len(a) THEN <<>>
    ELSE BDivSmall(SubSeq(a, (n \div 15) + 1, Len(a)), 2^(n % 15)).q

RECURSIVE IntBits(_)
IntBits(n) == IF n = 0 THEN 0 ELSE 1 + IntBits(n \div 2)

BBitLen(a) == IF a = <<>> THEN 0 ELSE 15 * (Len(a) - 1) + IntBits(a[Len(a)])

BOdd(a) == a # <<>> /\ Head(a) % 2 = 1

\* M / 2^s rounded to the nearest integer, ties to even; sticky says the
\* exact value lies strictly above M (by less than one unit of M)
BRoundShr(M, s, sticky) ==
    IF s = 0 THEN M
    ELSE LET q2  == BShr(M, s - 1)
             q   == BShr(q2, 1)
             st  == sticky \/ BShl(q2, s - 1) # M
             up  == BOdd(q2) /\ (st \/ BOdd(q))
         IN  IF up THEN BAdd(q, <<1>>) ELSE q

----------------------------------------------------------------------------
(* Python float (binary64): value = (-1)^neg * m * 2^e, m a natural number *)
(* of at most 53 bits.  Kept canonical (m odd, or m = 0 and e = 0) so that *)
(* equal values are equal records.  The amounts of an invoice stay far     *)
(* from the overflow and subnormal ranges, which are not modelled.         *)

RECURSIVE TrailingZeros(_)
\* number of trailing zero bits of n > 0
TrailingZeros(n) == IF n % 2 = 1 THEN 0 ELSE 1 + TrailingZeros(n \div 2)

RECURSIVE FCanon(_, _, _)
FCanon(neg, m, e) ==
    IF m = <<>> THEN [neg |-> neg, m |-> <<>>, e |-> 0]
    ELSE IF Head(m) = 0 THEN FCanon(neg, Tail(m), e + 15)
    ELSE LET z == TrailingZeros(Head(m))
         IN  [neg |-> neg,
              m   |-> IF z = 0 THEN m ELSE BDivSmall(m, 2^z).q,
              e   |-> e + z]

\* round the exact value M * 2^e (+ a little if sticky) to 53 bits
FRound(neg, M, e, sticky) ==
    LET L == BBitLen(M)
        s == IF L > 53 THEN L - 53 ELSE 0
    IN  FCanon(neg, BRoundShr(M, s, sticky), e + s)

FZero == [neg |-> FALSE, m |-> <<>>, e |-> 0]

FIsZero(x) == x.m = <<>>

FNeg(x) == [x EXCEPT !.neg = ~x.neg]

FAbs(x) == [x EXCEPT !.neg = FALSE]

\* x + y
FAdd(x, y) ==
    IF FIsZero(x) THEN (IF FIsZero(y) THEN [FZero EXCEPT !.neg = x.neg /\ y.neg] ELSE y)
    ELSE IF FIsZero(y) THEN x
    ELSE LET e == IF x.e < y.e THEN x.e ELSE y.e
             X == BShl(x.m, x.e - e)
             Y == BShl(y.m, y.e - e)
         IN  IF x.neg = y.neg THEN FRound(x.neg, BAdd(X, Y), e, FALSE)
             ELSE IF X = Y THEN FZero
             ELSE IF BLess(X, Y) THEN FRound(y.neg, BSub(Y, X), e, FALSE)
             ELSE FRound(x.neg, BSub(X, Y), e, FALSE)

\* x - y
FSub(x, y) == FAdd(x, FNeg(y))

\* x * y
FMul(x, y) == FRound(x.neg # y.neg, BMul(x.m, y.m), x.e + y.e, FALSE)

\* |x| < |y|
MagLess(x, y) ==
    IF FIsZero(y) THEN FALSE
    ELSE IF FIsZero(x) THEN TRUE
    ELSE IF BBitLen(x.m) + x.e # BBitLen(y.m) + y.e
         THEN BBitLen(x.m) + x.e < BBitLen(y.m) + y.e
    ELSE LET e == IF x.e < y.e THEN x.e ELSE y.e
         IN  BLess(BShl(x.m, x.e - e), BShl(y.m, y.e - e))

\* x > y
FGt(x, y) ==
    IF x.neg /\ ~y.neg THEN FALSE
    ELSE IF ~x.neg /\ y.neg THEN ~(FIsZero(x) /\ FIsZero(y))
    ELSE IF x.neg THEN MagLess(x, y)
    ELSE MagLess(y, x)

\* the float nearest to the decimal c / 100 (c an integer number of cents):
\* what float() of a two-decimal JSON number or a literal such as 0.01 is
FromCents(c) ==
    LET a == IF c < 0 THEN 0 - c ELSE c
        d == BDivSmall(BShl(BFromInt(a), 70), 100)
    IN  FRound(c < 0, d.q, 0 - 70, d.r # 0)

\* format(x, ".2f"): the exact value rounded to cents, ties to even; the
\* text is determined by the sign and the number of cents
Fmt2(x) ==
    LET M == BMulSmall(x.m, 100)
    IN  [neg   |-> x.neg,
         cents |-> BToInt(IF x.e >= 0 THEN BShl(M, x.e)
                          ELSE BRoundShr(M, 0 - x.e, FALSE))]

----------------------------------------------------------------------------
(* models.py: Invoice, LineItem, ValidationResult.                         *)
(*                                                                         *)
(* Text fields are strings; None stands for Python's None and is never the *)
(* text of a field.  vendor_abn is a sequence of characters (the ABN check *)
(* works on characters), <<None>> when absent.  A message is the kind of   *)
(* f-string that produced it together with the texts and numbers that were *)
(* formatted into it, so two messages are equal exactly when the formatted *)
(* strings are equal.                                                      *)

None == "None"

NoAbn == <<None>>

LineItem(description, quantity, unit_price, amount) ==
    [description |-> description, quantity |-> quantity,
     unit_price |-> unit_price, amount |-> amount]

ValidationResult(is_valid, issues, warnings) ==
    [is_valid |-> is_valid, issues |-> issues, warnings |-> warnings]

Msg(kind, text, nums) == [kind |-> kind, text |-> text, nums |-> nums]

\* "${x:.2f}" and "${x:,.2f}": sign and cents of the rounded amount
Money(x) == LET f == Fmt2(x) IN <<IF f.neg THEN 1 ELSE 0, f.cents>>

\* "{x}" of a float: repr() is one-to-one on floats
Repr(x) == <<IF x.neg THEN 1 ELSE 0, x.e>> \o x.m

\* truth value of a str-or-None field
Truthy(s) == s # "" /\ s # None

----------------------------------------------------------------------------
(* validator.py: InvoiceValidator                                          *)

\* validation_rules["max_total"] = 50000.00, in cents
MaxTotalCents == 5000000

\* validation_rules["max_line_item"] = 10000.00, in cents
MaxLineItemCents == 1000000

max_total == FromCents(MaxTotalCents)

max_line_item == FromCents(MaxLineItemCents)

\* the literal 0.01 of the reconciliation checks
Tolerance == FromCents(1)

\* the literal 0.10 of the tax check
GstRate == FromCents(10)

Digits == {"0", "1", "2", "3", "4", "5", "6", "7", "8", "9"}

\* re.sub(r'[^\d]', '', abn)
RECURSIVE abn_clean(_)
abn_clean(abn) ==
    IF abn = <<>> THEN <<>>
    ELSE (IF Head(abn) \in Digits THEN <<Head(abn)>> ELSE <<>>) \o abn_clean(Tail(abn))

\* sum(item.amount for item in line_items): left to right from the int 0
RECURSIVE SumFrom(_, _)
SumFrom(acc, items) ==
    IF items = <<>> THEN acc
    ELSE SumFrom(FAdd(acc, Head(items).amount), Tail(items))

calculated_subtotal(invoice) == SumFrom(FZero, invoice.line_items)

\* a comparison without tolerance (faulty variant of Mismatch)
Mismatch_exact(a, b) == ~FIsZero(FSub(a, b))

\* abs(a - b) > 0.01
Mismatch(a, b) == FGt(FAbs(FSub(a, b)), Tolerance)

AddIssue(acc, m) == [acc EXCEPT !.issues = Append(@, m)]

AddWarning(acc, m) == [acc EXCEPT !.warnings = Append(@, m)]

\* a required-field check that reports the first missing field only (faulty
\* variant of CheckRequired)
CheckRequired_first(invoice, acc) ==
    IF ~Truthy(invoice.invoice_number)
    THEN AddIssue(acc, Msg("Missing invoice number", <<>>, <<>>))
    ELSE IF ~Truthy(invoice.vendor_name)
    THEN AddIssue(acc, Msg("Missing vendor name", <<>>, <<>>))
    ELSE IF FIsZero(invoice.total_amount)
    THEN AddIssue(acc, Msg("Missing total amount", <<>>, <<>>))
    ELSE acc

\* Check 1: required fields
CheckRequired(invoice, acc) ==
    LET a1 == IF ~Truthy(invoice.invoice_number)
              THEN AddIssue(acc, Msg("Missing invoice number", <<>>, <<>>)) ELSE acc
        a2 == IF ~Truthy(invoice.vendor_name)
              THEN AddIssue(a1, Msg("Missing vendor name", <<>>, <<>>)) ELSE a1
    IN  IF FIsZero(invoice.total_amount)
        THEN AddIssue(a2, Msg("Missing total amount", <<>>, <<>>)) ELSE a2

\* a duplicate check that passes over invoices without a number (faulty
\* variant of CheckDuplicate)
CheckDuplicate_numbered(invoice, processed, acc) ==
    IF Truthy(invoice.invoice_number) /\ invoice.invoice_number \in processed
    THEN AddIssue(acc, Msg("DUPLICATE", <<invoice.invoice_number>>, <<>>))
    ELSE acc

\* Check 2: duplicate detection, the issue
CheckDuplicate(invoice, processed, acc) ==
    IF invoice.invoice_number \in processed
    THEN AddIssue(acc, Msg("DUPLICATE", <<invoice.invoice_number>>, <<>>))
    ELSE acc

\* a validator that never registers a number (faulty variant of Register)
Register_forget(invoice, processed) == processed

\* a validator that remembers only the latest number (faulty variant of
\* Register)
Register_latest(invoice, processed) == {invoice.invoice_number}

\* Check 2: duplicate detection, the registration in the else branch
Register(invoice, processed) ==
    IF invoice.invoice_number \in processed
    THEN processed
    ELSE processed \cup {invoice.invoice_number}

\* Check 3: line items sum against the subtotal
CheckSubtotal(invoice, acc) ==
    IF Mismatch(calculated_subtotal(invoice), invoice.subtotal)
    THEN AddIssue(acc, Msg("Subtotal mismatch", <<>>,
                           Money(calculated_subtotal(invoice)) \o Money(invoice.subtotal)))
    ELSE acc

\* a tax check that blocks the invoice (faulty variant of CheckTax)
CheckTax_as_issue(invoice, acc) ==
    IF Mismatch(FMul(invoice.subtotal, GstRate), invoice.tax_amount)
    THEN AddIssue(acc, Msg("Tax amount", <<>>,
                           Money(invoice.tax_amount)
                           \o Money(FMul(invoice.subtotal, GstRate))))
    ELSE acc

\* Check 4: tax against 10% of the subtotal
CheckTax(invoice, acc) ==
    LET expected_tax == FMul(invoice.subtotal, GstRate)
    IN  IF Mismatch(expected_tax, invoice.tax_amount)
        THEN AddWarning(acc, Msg("Tax amount", <<>>,
                                 Money(invoice.tax_amount) \o Money(expected_tax)))
        ELSE acc

\* a total check that is skipped once the subtotal was reported (faulty
\* variant of CheckTotal)
CheckTotal_unless_subtotal(invoice, acc) ==
    IF /\ \A i \in 1..Len(acc.issues) : acc.issues[i].kind # "Subtotal mismatch"
       /\ Mismatch(FAdd(invoice.subtotal, invoice.tax_amount), invoice.total_amount)
    THEN AddIssue(acc, Msg("Total mismatch", <<>>,
                           Money(invoice.subtotal) \o Money(invoice.tax_amount)
                           \o Money(FAdd(invoice.subtotal, invoice.tax_amount))
                           \o Money(invoice.total_amount)))
    ELSE acc

\* Check 5: subtotal + tax against the total
CheckTotal(invoice, acc) ==
    LET expected_total == FAdd(invoice.subtotal, invoice.tax_amount)
    IN  IF Mismatch(expected_total, invoice.total_amount)
        THEN AddIssue(acc, Msg("Total mismatch", <<>>,
                               Money(invoice.subtotal) \o Money(invoice.tax_amount)
                               \o Money(expected_total) \o Money(invoice.total_amount)))
        ELSE acc

\* a threshold that 50,000.00 itself exceeds (faulty variant of
\* CheckHighValue)
CheckHighValue_inclusive(invoice, acc) ==
    IF ~FGt(max_total, invoice.total_amount)
    THEN AddWarning(acc, Msg("HIGH VALUE", <<>>,
                             Money(invoice.total_amount) \o Money(max_total)))
    ELSE acc

\* Check 6: high value total
CheckHighValue(invoice, acc) ==
    IF FGt(invoice.total_amount, max_total)
    THEN AddWarning(acc, Msg("HIGH VALUE", <<>>,
                             Money(invoice.total_amount) \o Money(max_total)))
    ELSE acc

\* Check 7, one pass of the loop body
CheckLineItem(item, acc) ==
    LET a1 == IF FGt(item.amount, max_line_item)
              THEN AddWarning(acc, Msg("High value line item", <<item.description>>,
                                       Money(item.amount)))
              ELSE acc
        expected_amount == FMul(item.quantity, item.unit_price)
    IN  IF Mismatch(expected_amount, item.amount)
        THEN AddIssue(a1, Msg("Line item math error", <<item.description>>,
                              Repr(item.quantity) \o Money(item.unit_price)
                              \o Money(expected_amount) \o Money(item.amount)))
        ELSE a1

\* Check 7: the loop over the line items
RECURSIVE CheckLineItems(_, _)
CheckLineItems(items, acc) ==
    IF items = <<>> THEN acc
    ELSE CheckLineItems(Tail(items), CheckLineItem(Head(items), acc))

\* an ABN check that measures the text as given, spacing included (faulty
\* variant of CheckAbn)
CheckAbn_raw_length(invoice, acc) ==
    IF invoice.vendor_abn # NoAbn /\ invoice.vendor_abn # <<>>
       /\ Len(invoice.vendor_abn) # 11
    THEN AddWarning(acc, Msg("ABN format may be invalid", invoice.vendor_abn, <<>>))
    ELSE acc

\* Check 8: ABN format
CheckAbn(invoice, acc) ==
    IF invoice.vendor_abn # NoAbn /\ invoice.vendor_abn # <<>>
       /\ Len(abn_clean(invoice.vendor_abn)) # 11
    THEN AddWarning(acc, Msg("ABN format may be invalid", invoice.vendor_abn, <<>>))
    ELSE acc

\* a date check that is skipped once an issue was found (faulty variant of
\* CheckDates)
CheckDates_unless_issues(invoice, acc) ==
    IF acc.issues = <<>> /\ (~Truthy(invoice.invoice_date) \/ ~Truthy(invoice.due_date))
    THEN AddWarning(acc, Msg("Missing date information", <<>>, <<>>))
    ELSE acc

\* Check 9: dates
CheckDates(invoice, acc) ==
    IF ~Truthy(invoice.invoice_date) \/ ~Truthy(invoice.due_date)
    THEN AddWarning(acc, Msg("Missing date information", <<>>, <<>>))
    ELSE acc

\* a verdict that warnings can change (faulty variant of IsValid)
IsValid_no_warnings(issues, warnings) == Len(issues) = 0 /\ Len(warnings) = 0

\* is_valid = len(issues) == 0
IsValid(issues, warnings) == Len(issues) = 0

\* a reset that clears nothing (faulty variant of reset)
reset_keep(processed) == processed

\* InvoiceValidator.reset: self.processed_invoices.clear()
reset(processed) == {}

\* return ValidationResult(is_valid=is_valid, issues=issues, warnings=warnings)
Verdict(acc) == ValidationResult(IsValid(acc.issues, acc.warnings), acc.issues, acc.warnings)

\* a validator that records the number of a valid invoice only (faulty
\* variant of validate)
validate_record_valid(invoice, processed) ==
    [result    |-> Verdict(
                     CheckDates(invoice,
                     CheckAbn(invoice,
                     CheckLineItems(invoice.line_items,
                     CheckHighValue(invoice,
                     CheckTotal(invoice,
                     CheckTax(invoice,
                     CheckSubtotal(invoice,
                     CheckDuplicate(invoice, processed,
                     CheckRequired(invoice, [issues |-> <<>>, warnings |-> <<>>])))))))))),
     processed |-> IF CheckLineItems(invoice.line_items,
                        CheckTotal(invoice,
                        CheckSubtotal(invoice,
                        CheckDuplicate(invoice, processed,
                        CheckRequired(invoice, [issues |-> <<>>, warnings |-> <<>>]))))).issues
                        = <<>>
                   THEN Register(invoice, processed) ELSE processed]

\* InvoiceValidator.validate as a function of the invoice and the
\* duplicate set: the result of the nine checks, each appending to the
\* lists the earlier ones left, and the duplicate set afterwards
validate(invoice, processed) ==
    [result    |-> Verdict(
                     CheckDates(invoice,
                     CheckAbn(invoice,
                     CheckLineItems(invoice.line_items,
                     CheckHighValue(invoice,
                     CheckTotal(invoice,
                     CheckTax(invoice,
                     CheckSubtotal(invoice,
                     CheckDuplicate(invoice, processed,
                     CheckRequired(invoice, [issues |-> <<>>, warnings |-> <<>>])))))))))),
     processed |-> Register(invoice, processed)]

----------------------------------------------------------------------------
(* smart_validator.py: SmartValidator                                      *)
(*                                                                         *)
(* The classifier collaborator's answer is an input.  Either the call      *)
(* raises, or the content is not JSON, or it is JSON that is not an        *)
(* object, or it is a JSON object whose "critical_issues" and "warnings"   *)
(* are arbitrary JSON values.  A Python value is tagged with its type t;   *)
(* v holds the elements of a list (one entry per character of a string).   *)
(* The elements of a list are messages: a string element is the message    *)
(* with that text, other elements carry the kind "json:<type>".            *)

Returned(v) == [status |-> "returned", value |-> v]

Raised(e) == [status |-> "raised", error |-> e]

PyList(xs) == [t |-> "list", v |-> xs]

PyAbsent == [t |-> "absent", v |-> <<>>]

PyNull == [t |-> "null", v |-> <<>>]

\* a string that stands where a list was expected, of n characters
PyStr(n) == [t |-> "str", v |-> [i \in 1..n |-> Msg("char", <<>>, <<>>)]]

\* len(x) is defined for lists, strings and dicts
HasLen(x) == x.t \in {"list", "str", "dict"}

\* hash(x) fails for lists and dicts
Hashable(m) == m.kind \notin {"json:list", "json:object"}

EmptyValidation == ValidationResult(TRUE, PyList(<<>>), PyList(<<>>))

\* the try block of _ai_analyze
AnalyzeBody(reply) ==
    IF reply.kind = "raise" THEN Raised("APIError")
    ELSE IF reply.kind = "text" THEN Raised("JSONDecodeError")
    ELSE IF reply.kind # "object" THEN Raised("AttributeError")
    ELSE LET issues   == IF reply.critical_issues.t = "absent"
                         THEN PyList(<<>>) ELSE reply.critical_issues
             warnings == IF reply.warnings.t = "absent"
                         THEN PyList(<<>>) ELSE reply.warnings
         IN  IF ~HasLen(issues) THEN Raised("TypeError")
             ELSE Returned(ValidationResult(Len(issues.v) = 0, issues, warnings))

\* an except clause that lets the exception through (faulty variant of
\* AnalyzeHandler)
AnalyzeHandler_reraise(body) == body

\* the except clause of _ai_analyze
AnalyzeHandler(body) ==
    IF body.status = "raised" THEN Returned(EmptyValidation) ELSE body

\* SmartValidator._ai_analyze
ai_analyze(invoice, reply) == AnalyzeHandler(AnalyzeBody(reply))

\* a concatenation in the wrong order (faulty variant of ListPlus)
ListPlus_reversed(xs, y) ==
    IF y.t = "list" THEN Returned(y.v \o xs) ELSE Raised("TypeError")

\* list + x
ListPlus(xs, y) ==
    IF y.t = "list" THEN Returned(xs \o y.v) ELSE Raised("TypeError")

\* keys that are not deduplicated (faulty variant of FromKeys)
FromKeys_keep_all(keys, xs) == keys \o xs

RECURSIVE FromKeys(_, _)
\* the keys of dict.fromkeys(xs), in insertion order
FromKeys(keys, xs) ==
    IF xs = <<>> THEN keys
    ELSE FromKeys(IF \E i \in 1..Len(keys) : keys[i] = Head(xs)
                  THEN keys ELSE Append(keys, Head(xs)),
                  Tail(xs))

\* list(dict.fromkeys(xs))
Dedup(xs) ==
    IF \E i \in 1..Len(xs) : ~Hashable(xs[i]) THEN Raised("TypeError")
    ELSE Returned(FromKeys(<<>>, xs))

\* a verdict that warnings can change (faulty variant of CombinedVerdict)
CombinedVerdict_warnings(issues, warnings) == Len(issues) = 0 /\ Len(warnings) = 0

\* is_valid = len(combined_issues) == 0
CombinedVerdict(issues, warnings) == Len(issues) = 0

\* the combination of the two results in SmartValidator.validate
Combine(rule_v, ai_v) ==
    LET ci == ListPlus(rule_v.issues, ai_v.issues)
        cw == ListPlus(rule_v.warnings, ai_v.warnings)
    IN  IF ci.status = "raised" THEN ci
        ELSE IF cw.status = "raised" THEN cw
        ELSE LET di == Dedup(ci.value)
                 dw == Dedup(cw.value)
             IN  IF di.status = "raised" THEN di
                 ELSE IF dw.status = "raised" THEN dw
                 ELSE Returned(ValidationResult(CombinedVerdict(di.value, dw.value),
                                                di.value, dw.value))

\* a validator that takes the number out again when the second stage
\* fails (faulty variant of smart_validate_after)
smart_validate_after_unregister(rv, invoice, reply) ==
    [rule      |-> rv.result,
     ai        |-> ai_analyze(invoice, reply),
     result    |-> IF ai_analyze(invoice, reply).status = "raised"
                   THEN ai_analyze(invoice, reply)
                   ELSE Combine(rv.result, ai_analyze(invoice, reply).value),
     processed |-> IF AnalyzeBody(reply).status = "raised"
                   THEN rv.processed \ {invoice.invoice_number}
                   ELSE rv.processed]

\* SmartValidator.validate after its first statement: rv is what
\* self.rule_validator.validate(invoice) returned and left in the set.
\* An exception of _ai_analyze or of the combination reaches the caller.
smart_validate_after(rv, invoice, reply) ==
    LET ai == ai_analyze(invoice, reply)
    IN  [rule      |-> rv.result,
         ai        |-> ai,
         result    |-> IF ai.status = "raised" THEN ai
                       ELSE Combine(rv.result, ai.value),
         processed |-> rv.processed]

\* SmartValidator.validate as a function of the invoice, the duplicate set
\* and the collaborator's answer
smart_validate(invoice, processed, reply) ==
    smart_validate_after(validate(invoice, processed), invoice, reply)

----------------------------------------------------------------------------
(* extractor.py: the extraction collaborator's JSON document and the       *)
(* Invoice built from it.  A document carries decimal numbers, here in     *)
(* hundredths; float() turns each into the nearest binary64 value.         *)
(* First the documents the model draws from.                               *)

\* most line items of a document
MaxItems == 2

Numbers == {"", "INV-1", "INV-2"}

VendorNames == {"", "Acme"}

Abns == {NoAbn,
         <<"1", "2", " ", "3", "4", "5", " ", "6", "7", "8", " ", "9", "0", "1">>,
         <<"1", "2", "3">>}

\* <<invoice_date, due_date>>
DatePairs == {<<"2024-01-15", "2024-02-14">>, <<"2024-01-15", "">>, <<"", "2024-02-14">>}

\* discrepancies in cents tried in each reconciliation
Deltas == {0, 1, 2}

\* a widget at 100.00 whose stated amount is off by 0, 1 or 2 cents, and
\* five plants at 9090.91 = 45454.55
ItemDocs ==
    {[description |-> "Widget", quantity |-> 100, unit_price |-> 10000,
      amount |-> 10000 + d] : d \in Deltas}
    \cup {[description |-> "Plant", quantity |-> 500, unit_price |-> 909091,
           amount |-> 4545455]}

ItemSeqs == UNION {[1..n -> ItemDocs] : n \in 0..MaxItems}

RECURSIVE SumCents(_)
SumCents(items) ==
    IF items = <<>> THEN 0 ELSE Head(items).amount + SumCents(Tail(items))

\* a document with the given header and items whose subtotal, tax and total
\* are off by ds, dt and dtot cents (the tax is 10% rounded down to a cent)
MkDoc(number, vendor, abn, dates, items, ds, dt, dtot) ==
    LET subtotal == SumCents(items) + ds
        tax      == (subtotal \div 10) + dt
    IN  [invoice_number |-> number,
         invoice_date   |-> dates[1],
         due_date       |-> dates[2],
         vendor_name    |-> vendor,
         vendor_abn     |-> abn,
         line_items     |-> items,
         subtotal       |-> subtotal,
         tax_amount     |-> tax,
         total_amount   |-> subtotal + tax + dtot]

\* further ABN texts: the empty string, 11 digits unspaced, 11 digits with
\* hyphens and a prefix, 12 digits, blanks only
MoreAbns ==
    {<<>>,
     <<"1", "2", "3", "4", "5", "6", "7", "8", "9", "0", "1">>,
     <<"A", "B", "N", ":", " ", "1", "2", "-", "3", "4", "5", "-", "6", "7", "8", "-",
       "9", "0", "1">>,
     <<"1", "2", "3", "4", "5", "6", "7", "8", "9", "0", "1", "2">>,
     <<" ", " ">>}

\* documents that reconcile, with each of the further ABN texts
AbnDocs ==
    {MkDoc(n, "Acme", a, <<"2024-01-15", "2024-02-14">>, it, 0, 0, 0) :
        n \in {"INV-1", "INV-2"}, a \in MoreAbns, it \in ItemSeqs}

\* documents that reconcile, with a null invoice number or vendor name
NullDocs ==
    {MkDoc(n, v, NoAbn, <<"2024-01-15", "2024-02-14">>, it, 0, 0, 0) :
        n \in {None, "INV-1"}, v \in {None, "Acme"}, it \in ItemSeqs}

\* line items that are exact and within the line item limit: services at
\* 500.00 and 1500.00, three cables at 33.30, a server at the limit of
\* 10000.00 and seven stamps at 0.10
CleanItemDocs ==
    {[description |-> "Service", quantity |-> 100, unit_price |-> 50000, amount |-> 50000],
     [description |-> "Support", quantity |-> 100, unit_price |-> 150000, amount |-> 150000],
     [description |-> "Cable", quantity |-> 300, unit_price |-> 3330, amount |-> 9990],
     [description |-> "Server", quantity |-> 100, unit_price |-> 1000000, amount |-> 1000000],
     [description |-> "Stamp", quantity |-> 700, unit_price |-> 10, amount |-> 70]}

CleanItemSeqs == UNION {[1..n -> CleanItemDocs] : n \in 1..MaxItems}

\* documents without any defect, with and without an ABN
CleanDocs ==
    {MkDoc(n, "Acme", a, <<"2024-01-15", "2024-02-14">>, it, 0, 0, 0) :
        n \in {"INV-1", "INV-2"},
        a \in {NoAbn, <<"1", "2", " ", "3", "4", "5", " ", "6", "7", "8", " ", "9", "0", "1">>},
        it \in CleanItemSeqs}

\* the documents of the rule-validator specification: every header with
\* every item sequence and every combination of discrepancies
RuleDocs ==
    AbnDocs \cup NullDocs \cup CleanDocs \cup
    {MkDoc(n, v, a, dp, it, ds, dt, dtot) :
        n \in Numbers, v \in VendorNames, a \in Abns,
        dp \in {<<"2024-01-15", "2024-02-14">>, <<"2024-01-15", "">>},
        it \in ItemSeqs, ds \in Deltas, dt \in Deltas, dtot \in Deltas}

\* the documents of the pipeline specification: a missing and a given
\* number, every vendor and date pair, widgets that are exact or off by two
\* cents, totals that agree
PipelineNumbers == {"", "INV-1"}

PipelineItemSeqs ==
    {it \in ItemSeqs :
        \A i \in 1..Len(it) : it[i].description = "Widget" /\ it[i].amount # 10001}

Docs ==
    {MkDoc(n, v, NoAbn, dp, it, 0, 0, 0) :
        n \in PipelineNumbers, v \in VendorNames, dp \in DatePairs, it \in PipelineItemSeqs}

\* the documents of the specification of invoices that come again: a number
\* that is given, empty or null, a vendor that is given or not, one widget
\* that is exact or off by two cents
RetryDocs ==
    {MkDoc(n, v, NoAbn, <<"2024-01-15", "2024-02-14">>,
           <<[description |-> "Widget", quantity |-> 100, unit_price |-> 10000,
              amount |-> 10000 + d]>>, 0, 0, 0) :
        n \in {"", None, "INV-1"}, v \in VendorNames, d \in {0, 2}}

\* every decimal number that occurs in a document
AllCents ==
    UNION {{i.quantity, i.unit_price, i.amount} : i \in ItemDocs \cup CleanItemDocs}
    \cup UNION {{d.subtotal, d.tax_amount, d.total_amount} :
                   d \in RuleDocs \cup Docs \cup RetryDocs}

\* float() of each of them, computed once
FloatOf == [c \in AllCents |-> FromCents(c)]

\* float(x) for the decimal number x of a document, x in hundredths
float(c) == FloatOf[c]

\* LineItem(description=..., quantity=float(...), unit_price=float(...), amount=float(...))
ToLineItem(d) ==
    LineItem(d.description, float(d.quantity), float(d.unit_price),
             float(d.amount))

\* Invoice(...) of extract_from_text
ToInvoice(doc) ==
    [invoice_number |-> doc.invoice_number,
     invoice_date   |-> doc.invoice_date,
     due_date       |-> doc.due_date,
     vendor_name    |-> doc.vendor_name,
     vendor_abn     |-> doc.vendor_abn,
     line_items     |-> [i \in 1..Len(doc.line_items) |-> ToLineItem(doc.line_items[i])],
     subtotal       |-> float(doc.subtotal),
     tax_amount     |-> float(doc.tax_amount),
     total_amount   |-> float(doc.total_amount)]


\* strings the classifier may return: two of its own, and two that the rule
\* validator also produces
TextA == Msg("Bank account details changed", <<>>, <<>>)

TextB == Msg("Payment by gift card requested", <<>>, <<>>)

TextVendor == Msg("Missing vendor name", <<>>, <<>>)

TextDates == Msg("Missing date information", <<>>, <<>>)

\* values of "critical_issues" and of "warnings" in the classifier's answer
JsonValues ==
    {PyAbsent, PyNull, PyList(<<>>),
     PyList(<<TextB, TextVendor, TextDates, TextB, TextA>>),
     PyList(<<Msg("json:number", <<>>, <<1>>)>>),
     PyList(<<TextA, Msg("json:list", <<>>, <<>>)>>),
     PyStr(2)}

Replies ==
    {[kind |-> k, critical_issues |-> PyAbsent, warnings |-> PyAbsent] :
        k \in {"raise", "text", "array"}}
    \cup {[kind |-> "object", critical_issues |-> ci, warnings |-> w] :
            ci \in JsonValues, w \in JsonValues}

----------------------------------------------------------------------------
(* The pipeline: a caller extracts a document, validates the invoice with  *)
(* the rule validator alone or with the SmartValidator, and goes on to the *)
(* next document; it may reset the validator between documents.            *)

VARIABLES
    processed_invoices, \* InvoiceValidator.processed_invoices
    validated,          \* history: the numbers passed to validate since construction or reset
    seen_before,        \* history: the last number validated had been validated before
    dropped,            \* history: the numbers the last reset removed
    pc,                 \* "idle", "extracted", "validated" or "smart_validated"
    doc,                \* the document the extraction collaborator returned
    invoice,            \* the Invoice built from it
    reply,              \* the classifier collaborator's answer
    rule_validation,    \* the rule validator's result
    ai_validation,      \* what _ai_analyze did: a result or an exception
    result,             \* what the caller got: a result or an exception
    session,            \* app.py: st.session_state (results and the three counters)
    uploaded_files,     \* app.py: the files of the Process run
    idx,                \* app.py: how many of them the loop has been through
    successful,         \* app.py: successful
    failed,             \* app.py: failed
    outcomes,           \* history: what each file of the run ended with
    runs,               \* history: how many Process runs the session has started
    earlier_numbers,    \* history: the numbers validated in earlier runs of the session
    calls,              \* concurrent use: each thread's validate call and how far it is
    passed,             \* history: per number, the calls that found it not yet recorded
    rejected            \* history: the numbers whose first validation since construction or
                        \* reset came back invalid

pipeVars == <<validated, seen_before, dropped, pc, doc, invoice, reply,
              rule_validation, ai_validation, result>>

appVars == <<session, uploaded_files, idx, successful, failed, outcomes, runs,
             earlier_numbers>>

concVars == <<calls, passed>>

histVars == <<rejected>>

vars == <<processed_invoices, pipeVars, appVars, concVars, histVars>>

\* the threads that share one validator
Threads == {"t1", "t2"}

NoCall == [pc |-> "idle", number |-> "", flagged |-> FALSE]

\* no thread has called validate
NoCalls ==
    /\ calls = [t \in Threads |-> NoCall]
    /\ passed = [n \in Numbers |-> 0]

\* st.session_state as the sidebar initialises it, and after Clear Results
NewSession == [results |-> <<>>, processed_count |-> 0, valid_count |-> 0,
               invalid_count |-> 0]

\* the application has not been used
AppUnused ==
    /\ session = NewSession
    /\ uploaded_files = <<>>
    /\ idx = 0
    /\ successful = 0
    /\ failed = 0
    /\ outcomes = <<>>
    /\ runs = 0
    /\ earlier_numbers = {}

NoValue == [status |-> "none"]

NoReply == [kind |-> "none", critical_issues |-> PyAbsent, warnings |-> PyAbsent]

\* InvoiceValidator.__init__ and no document in hand
Init ==
    /\ processed_invoices = {}
    /\ validated = {}
    /\ seen_before = FALSE
    /\ dropped = {}
    /\ pc = "idle"
    /\ doc = NoValue
    /\ invoice = NoValue
    /\ reply = NoReply
    /\ rule_validation = NoValue
    /\ ai_validation = NoValue
    /\ result = NoValue
    /\ AppUnused
    /\ NoCalls
    /\ rejected = {}

\* InvoiceExtractor.extract_from_text returns an Invoice, the collaborator
\* having answered with one of the documents of docs
Extract(docs) ==
    /\ pc = "idle"
    /\ \E d \in docs :
          /\ doc' = d
          /\ invoice' = ToInvoice(d)
    /\ pc' = "extracted"
    /\ UNCHANGED <<processed_invoices, validated, seen_before, dropped, reply,
                   rule_validation, ai_validation, result, appVars>>
    /\ UNCHANGED concVars
    /\ UNCHANGED histVars

\* the call InvoiceValidator.validate(invoice) and what it leaves
ValidateCall ==
    /\ pc = "extracted"
    /\ \E rv \in {validate(invoice, processed_invoices)} :
           /\ processed_invoices' = rv.processed
           /\ rule_validation' = rv.result
           /\ result' = Returned(rv.result)
    /\ validated' = validated \cup {invoice.invoice_number}
    /\ seen_before' = (invoice.invoice_number \in validated)
    /\ pc' = "validated"
    /\ UNCHANGED <<dropped, doc, invoice, reply, ai_validation, appVars>>
    /\ UNCHANGED concVars

\* InvoiceValidator.validate(invoice)
Validate ==
    /\ ValidateCall
    /\ UNCHANGED histVars

\* the call SmartValidator.validate(invoice), the collaborator answering r
SmartValidateCall ==
    /\ pc = "extracted"
    /\ \E rv \in {validate(invoice, processed_invoices)} :
         \E r \in Replies :
           \E sv \in {smart_validate_after(rv, invoice, r)} :
              /\ processed_invoices' = sv.processed
              /\ rule_validation' = sv.rule
              /\ ai_validation' = sv.ai
              /\ result' = sv.result
              /\ reply' = r
    /\ validated' = validated \cup {invoice.invoice_number}
    /\ seen_before' = (invoice.invoice_number \in validated)
    /\ pc' = "smart_validated"
    /\ UNCHANGED <<dropped, doc, invoice, appVars>>
    /\ UNCHANGED concVars

\* SmartValidator.validate(invoice)
SmartValidate ==
    /\ SmartValidateCall
    /\ UNCHANGED histVars

\* InvoiceValidator.reset / SmartValidator.reset
Reset ==
    /\ pc = "idle"
    /\ processed_invoices' = reset(processed_invoices)
    /\ dropped' = processed_invoices
    /\ validated' = {}
    /\ seen_before' = FALSE
    /\ rejected' = {}
    /\ UNCHANGED <<pc, doc, invoice, reply, rule_validation, ai_validation, result,
                   appVars>>
    /\ UNCHANGED concVars

\* the caller is done with the document
Finish ==
    /\ pc \in {"validated", "smart_validated"}
    /\ pc' = "idle"
    /\ doc' = NoValue
    /\ invoice' = NoValue
    /\ reply' = NoReply
    /\ rule_validation' = NoValue
    /\ ai_validation' = NoValue
    /\ result' = NoValue
    /\ UNCHANGED <<processed_invoices, validated, seen_before, dropped, appVars>>
    /\ UNCHANGED concVars
    /\ UNCHANGED histVars

Next ==
    \/ Extract(Docs)
    \/ Validate
    \/ SmartValidate
    \/ Reset
    \/ Finish

Spec == Init /\ [][Next]_vars

\* The rule validator as a function of the invoice: any document of
\* RuleDocs, validated by a validator that has processed INV-2 before
RuleInit ==
    /\ processed_invoices = {"INV-2"}
    /\ validated = {"INV-2"}
    /\ seen_before = FALSE
    /\ dropped = {}
    /\ pc = "idle"
    /\ doc = NoValue
    /\ invoice = NoValue
    /\ reply = NoReply
    /\ rule_validation = NoValue
    /\ ai_validation = NoValue
    /\ result = NoValue
    /\ AppUnused
    /\ NoCalls
    /\ rejected = {}

RuleNext ==
    \/ Extract(RuleDocs)
    \/ Validate

RuleSpec == RuleInit /\ [][RuleNext]_vars

\* Invoices that come again: a caller validates the documents of RetryDocs
\* and the history notes the numbers whose first validation came back
\* invalid.
\* the verdict out is a first verdict on the invoice's number, and invalid
Rejects(out) ==
    /\ invoice.invoice_number \notin processed_invoices
    /\ out.status = "returned"
    /\ ~out.value.is_valid

\* InvoiceValidator.validate(invoice), the history noting a rejection
NotedValidate ==
    /\ ValidateCall
    /\ rejected' = IF Rejects(result') THEN rejected \cup {invoice.invoice_number}
                   ELSE rejected

\* SmartValidator.validate(invoice), the history noting a rejection
NotedSmartValidate ==
    /\ SmartValidateCall
    /\ rejected' = IF Rejects(result') THEN rejected \cup {invoice.invoice_number}
                   ELSE rejected

RetryNext ==
    \/ Extract(RetryDocs)
    \/ NotedValidate
    \/ NotedSmartValidate
    \/ Reset
    \/ Finish

RetrySpec == Init /\ [][RetryNext]_vars

----------------------------------------------------------------------------
(* app.py: the Process button.  A run constructs an extractor and a        *)
(* SmartValidator, goes through the uploaded files in order, and for each  *)
(* file either counts and stores the result or reports the failure; the    *)
(* results and counters are kept in st.session_state between runs.         *)

\* most files of a run
MaxFiles == 2

\* most Process runs of a session
MaxRuns == 2

EmptyReply == [kind |-> "object", critical_issues |-> PyList(<<>>), warnings |-> PyList(<<>>)]

NullWarningsReply == [kind |-> "object", critical_issues |-> PyList(<<>>), warnings |-> PyNull]

\* an invoice that reconciles: one widget at 100.00
PlainDoc(number) ==
    MkDoc(number, "Acme", NoAbn, <<"2024-01-15", "2024-02-14">>,
          <<[description |-> "Widget", quantity |-> 100, unit_price |-> 10000,
             amount |-> 10000]>>, 0, 0, 0)

\* the files a user may upload: two plain invoices, a file that holds an
\* invoice with the first one's number and on which the extraction
\* collaborator fails, and an invoice the classifier answers with null
\* warnings
Uploads ==
    {[filename |-> "one.txt", extraction |-> "invoice", doc |-> PlainDoc("INV-1"),
      reply |-> EmptyReply],
     [filename |-> "two.txt", extraction |-> "invoice", doc |-> PlainDoc("INV-2"),
      reply |-> EmptyReply],
     [filename |-> "bad.txt", extraction |-> "raise", doc |-> PlainDoc("INV-1"),
      reply |-> EmptyReply],
     [filename |-> "odd.txt", extraction |-> "invoice", doc |-> PlainDoc("INV-1"),
      reply |-> NullWarningsReply]}

Batches == UNION {[1..n -> Uploads] : n \in 1..MaxFiles}

\* InvoiceExtractor.extract_from_text on the text of an uploaded file
extract_from_text(file) ==
    IF file.extraction = "raise"
    THEN Raised("Extraction failed")
    ELSE Returned(ToInvoice(file.doc))

\* st.error(f"Failed to process {uploaded_file.name}: {str(e)}")
Failure(file, e) == [status |-> "failed", filename |-> file.filename, error |-> e]

\* statistics that count every stored result as valid (faulty variant of
\* Stored)
Stored_all_valid(sess, file, validation) ==
    [results         |-> Append(sess.results,
                                [filename |-> file.filename, invoice |-> file.doc,
                                 validation |-> validation]),
     processed_count |-> sess.processed_count + 1,
     valid_count     |-> sess.valid_count + 1,
     invalid_count   |-> sess.invalid_count]

\* the statistics and the stored result of one file
Stored(sess, file, validation) ==
    [results         |-> Append(sess.results,
                                [filename |-> file.filename, invoice |-> file.doc,
                                 validation |-> validation]),
     processed_count |-> sess.processed_count + 1,
     valid_count     |-> sess.valid_count + (IF validation.is_valid THEN 1 ELSE 0),
     invalid_count   |-> sess.invalid_count + (IF validation.is_valid THEN 0 ELSE 1)]

\* a failure that ends the loop (faulty variant of AfterFailure)
AfterFailure_break(i, n) == n

\* the except clause is inside the loop: the for statement goes on with
\* the next of the n files
AfterFailure(i, n) == i + 1

\* an except clause that counts the failed file as processed and invalid
\* (faulty variant of FileFailed)
FileFailed_counted(file, e) ==
    /\ failed' = failed + 1
    /\ idx' = AfterFailure(idx, Len(uploaded_files))
    /\ outcomes' = Append(outcomes, Failure(file, e))
    /\ session' = [session EXCEPT !.processed_count = @ + 1,
                                  !.invalid_count = @ + 1]
    /\ UNCHANGED successful

\* the except clause of the loop body: the failure is counted and shown
FileFailed(file, e) ==
    /\ failed' = failed + 1
    /\ idx' = AfterFailure(idx, Len(uploaded_files))
    /\ outcomes' = Append(outcomes, Failure(file, e))
    /\ UNCHANGED <<session, successful>>

\* Process pressed with files selected: the processors are constructed
StartRun ==
    /\ pc = "idle"
    /\ runs < MaxRuns
    /\ \E files \in Batches : uploaded_files' = files
    /\ processed_invoices' = {}
    /\ idx' = 0
    /\ successful' = 0
    /\ failed' = 0
    /\ outcomes' = <<>>
    /\ runs' = runs + 1
    /\ earlier_numbers' = earlier_numbers \cup validated
    /\ validated' = {}
    /\ pc' = "processing"
    /\ UNCHANGED <<seen_before, dropped, doc, invoice, reply, rule_validation,
                   ai_validation, result, session>>
    /\ UNCHANGED concVars
    /\ UNCHANGED histVars

\* one pass of the loop body, with its try and except
ProcessFile ==
    /\ pc = "processing"
    /\ idx < Len(uploaded_files)
    /\ \E file \in {uploaded_files[idx + 1]} :
         \E ex \in {extract_from_text(file)} :
            IF ex.status = "raised"
            THEN /\ FileFailed(file, ex.error)
                 /\ UNCHANGED <<processed_invoices, validated>>
            ELSE \E sv \in {smart_validate(ex.value, processed_invoices, file.reply)} :
                    /\ processed_invoices' = sv.processed
                    /\ validated' = validated \cup {ex.value.invoice_number}
                    /\ IF sv.result.status = "raised"
                       THEN FileFailed(file, sv.result.error)
                       ELSE /\ session' = Stored(session, file, sv.result.value)
                            /\ successful' = successful + 1
                            /\ outcomes' = Append(outcomes, sv.result)
                            /\ idx' = idx + 1
                            /\ UNCHANGED failed
    /\ UNCHANGED <<pc, uploaded_files, runs, earlier_numbers, seen_before, dropped, doc,
                   invoice, reply, rule_validation, ai_validation, result>>
    /\ UNCHANGED concVars
    /\ UNCHANGED histVars

\* the loop is over: the summary is shown and the script ends
EndRun ==
    /\ pc = "processing"
    /\ idx = Len(uploaded_files)
    /\ pc' = "idle"
    /\ UNCHANGED <<processed_invoices, validated, seen_before, dropped, doc, invoice,
                   reply, rule_validation, ai_validation, result, appVars>>
    /\ UNCHANGED concVars
    /\ UNCHANGED histVars

\* Clear Results pressed
ClearResults ==
    /\ pc = "idle"
    /\ session' = NewSession
    /\ UNCHANGED <<processed_invoices, pipeVars, uploaded_files, idx, successful, failed,
                   outcomes, runs, earlier_numbers>>
    /\ UNCHANGED concVars
    /\ UNCHANGED histVars

AppNext ==
    \/ StartRun
    \/ ProcessFile
    \/ EndRun
    \/ ClearResults

AppSpec == Init /\ [][AppNext]_vars

----------------------------------------------------------------------------
(* Concurrent use of one InvoiceValidator.  validate holds no lock, so a   *)
(* thread may be suspended between any two of its steps.  The steps that   *)
(* touch the shared set are the membership test of check 2 and the add in  *)
(* its else branch; everything else in validate works on the caller's own  *)
(* invoice and lists.                                                      *)

\* a thread calls validate with an invoice carrying number n
Call(t) ==
    /\ calls[t].pc = "idle"
    /\ \E n \in Numbers :
          calls' = [calls EXCEPT ![t] = [pc |-> "check", number |-> n, flagged |-> FALSE]]
    /\ UNCHANGED <<processed_invoices, passed, pipeVars, appVars>>
    /\ UNCHANGED histVars

\* check 2, the test: invoice.invoice_number in self.processed_invoices
Check(t) ==
    /\ calls[t].pc = "check"
    /\ \E found \in {calls[t].number \in processed_invoices} :
          /\ calls' = [calls EXCEPT ![t].flagged = found,
                                    ![t].pc = IF found THEN "rest" ELSE "add"]
          /\ passed' = IF found THEN passed
                       ELSE [passed EXCEPT ![calls[t].number] = @ + 1]
    /\ UNCHANGED <<processed_invoices, pipeVars, appVars>>
    /\ UNCHANGED histVars

\* check 2, the else branch: self.processed_invoices.add(invoice.invoice_number)
Add(t) ==
    /\ calls[t].pc = "add"
    /\ processed_invoices' = processed_invoices \cup {calls[t].number}
    /\ calls' = [calls EXCEPT ![t].pc = "rest"]
    /\ UNCHANGED <<passed, pipeVars, appVars>>
    /\ UNCHANGED histVars

\* checks 3 to 9 and the return
Return(t) ==
    /\ calls[t].pc = "rest"
    /\ calls' = [calls EXCEPT ![t].pc = "returned"]
    /\ UNCHANGED <<processed_invoices, passed, pipeVars, appVars>>
    /\ UNCHANGED histVars

\* the caller takes the result
Done(t) ==
    /\ calls[t].pc = "returned"
    /\ calls' = [calls EXCEPT ![t] = NoCall]
    /\ UNCHANGED <<processed_invoices, passed, pipeVars, appVars>>
    /\ UNCHANGED histVars

ConcNext ==
    \E t \in Threads : Call(t) \/ Check(t) \/ Add(t) \/ Return(t) \/ Done(t)

ConcSpec == Init /\ [][ConcNext]_vars

----------------------------------------------------------------------------
(* extractor.py: extract_from_text on whatever the extraction collaborator *)
(* does.  The call may raise; its content may be no JSON; the JSON object  *)
(* may lack keys or hold values of another type.  A JSON value is a record *)
(* of its type t and its text s, number n or elements xs; JMissing stands   *)
(* for a key that the object does not have.                                *)

JMissing == [t |-> "missing", s |-> "", n |-> 0, xs |-> <<>>]

JNull == [t |-> "null", s |-> "", n |-> 0, xs |-> <<>>]

JText(s) == [t |-> "text", s |-> s, n |-> 0, xs |-> <<>>]

\* the JSON number c / 100
JNumber(c) == [t |-> "number", s |-> "", n |-> c, xs |-> <<>>]

JArray(xs) == [t |-> "array", s |-> "", n |-> 0, xs |-> xs]

\* the strings that float() accepts, with the number they spell in cents
DecimalOf == [s \in {"110.00", "1e2"} |-> IF s = "110.00" THEN 11000 ELSE 10000]

\* obj.get(key): None for a key that is not there
Get(obj, key) ==
    IF obj[key].t = "missing" THEN Returned(JNull) ELSE Returned(obj[key])

\* a lookup that never raises (faulty variant of Item)
Item_or_none(obj, key) == Get(obj, key)

\* obj[key]
Item(obj, key) ==
    IF obj[key].t = "missing" THEN Raised("'" \o key \o "'") ELSE Returned(obj[key])

\* the numbers, in cents, that the responses hold
JsonCents ==
    {0, 100} \cup {n * k : n \in 0..MaxItems, k \in {1000, 10000, 11000}}

\* float() of each of them, computed once
JsonFloat == [c \in JsonCents |-> FromCents(c)]

\* type(x).__name__ of what json.loads makes of a JSON value
TypeName(x) ==
    CASE x.t = "null" -> "NoneType"
      [] x.t = "text" -> "str"
      [] x.t = "number" -> "float"
      [] OTHER -> "list"

\* float(x) of a JSON value
to_float(x) ==
    CASE x.t = "number" -> Returned(JsonFloat[x.n])
      [] x.t = "text" ->
            IF x.s \in DOMAIN DecimalOf
            THEN Returned(JsonFloat[DecimalOf[x.s]])
            ELSE Raised("could not convert string to float: '" \o x.s \o "'")
      [] OTHER -> Raised("float() argument must be a string or a real number, not '"
                         \o TypeName(x) \o "'")

\* float(v), v the outcome of obj[key]
FloatOfItem(v) == IF v.status = "raised" THEN v ELSE to_float(v.value)

\* float(obj[key])
FloatItem(obj, key) == FloatOfItem(Item(obj, key))

ItemKeys == <<"description", "quantity", "unit_price", "amount">>

\* the first of the outcomes that raised, if any
RECURSIVE FirstRaised(_)
FirstRaised(outs) ==
    IF outs = <<>> THEN Returned(<<>>)
    ELSE IF Head(outs).status = "raised" THEN Head(outs)
    ELSE FirstRaised(Tail(outs))

\* LineItem(...) once its four arguments are evaluated
LineItemFrom(outs) ==
    IF FirstRaised(outs).status = "raised" THEN FirstRaised(outs)
    ELSE Returned(LineItem(outs[1].value, outs[2].value, outs[3].value, outs[4].value))

\* LineItem(description=item["description"], quantity=float(item["quantity"]), ...)
MakeLineItem(item) ==
    LineItemFrom(<<Item(item, "description"), FloatItem(item, "quantity"),
                   FloatItem(item, "unit_price"), FloatItem(item, "amount")>>)

\* the list of the line items, unless one of them raised
ListFrom(outs) ==
    IF FirstRaised(outs).status = "raised" THEN FirstRaised(outs)
    ELSE Returned([i \in 1..Len(outs) |-> outs[i].value])

\* the list comprehension over the value li of extracted_data["line_items"]
LineItemsFrom(li) ==
    IF li.status = "raised" THEN li
    ELSE IF li.value.t = "text" /\ li.value.s = "" THEN Returned(<<>>)
    ELSE IF li.value.t = "text" THEN Raised("string indices must be integers, not 'str'")
    ELSE IF li.value.t # "array" THEN Raised("'" \o TypeName(li.value) \o "' object is not iterable")
    ELSE ListFrom([i \in 1..Len(li.value.xs) |-> MakeLineItem(li.value.xs[i])])

MakeLineItems(obj) == LineItemsFrom(Item(obj, "line_items"))

InvoiceKeys ==
    {"invoice_number", "invoice_date", "due_date", "vendor_name", "vendor_abn",
     "customer_name", "line_items", "subtotal", "tax_amount", "total_amount"}

\* the keys that extract_from_text reads with extracted_data[...]
RequiredKeys == InvoiceKeys \ {"vendor_abn"}

\* Invoice(...) once its arguments are evaluated
InvoiceFrom(outs, line_items, invoice_text) ==
    IF FirstRaised(outs).status = "raised" THEN FirstRaised(outs)
    ELSE Returned([invoice_number |-> outs[1].value,
                   invoice_date   |-> outs[2].value,
                   due_date       |-> outs[3].value,
                   vendor_name    |-> outs[4].value,
                   vendor_abn     |-> outs[5].value,
                   customer_name  |-> outs[6].value,
                   line_items     |-> line_items,
                   subtotal       |-> outs[7].value,
                   tax_amount     |-> outs[8].value,
                   total_amount   |-> outs[9].value,
                   raw_text       |-> invoice_text])

\* Invoice(invoice_number=extracted_data["invoice_number"], ...,
\*         raw_text=invoice_text), the arguments evaluated in order
MakeInvoice(obj, line_items, invoice_text) ==
    InvoiceFrom(<<Item(obj, "invoice_number"), Item(obj, "invoice_date"),
                  Item(obj, "due_date"), Item(obj, "vendor_name"),
                  Get(obj, "vendor_abn"), Item(obj, "customer_name"),
                  FloatItem(obj, "subtotal"), FloatItem(obj, "tax_amount"),
                  FloatItem(obj, "total_amount")>>, line_items, invoice_text)

\* the conversion to an Invoice, the line items first
Convert(obj, items, invoice_text) ==
    IF items.status = "raised" THEN items
    ELSE MakeInvoice(obj, items.value, invoice_text)

\* the body of the try statement: the call, json.loads, the conversion
TryExtract(response, invoice_text) ==
    CASE response.kind = "raise" -> Raised("Connection error.")
      [] response.kind = "text" -> Raised("Expecting value: line 1 column 1 (char 0)")
      [] OTHER -> Convert(response.data, MakeLineItems(response.data), invoice_text)

\* except Exception as e: raise Exception(f"Extraction failed: {str(e)}")
Handler(out) ==
    IF out.status = "raised" THEN Raised("Extraction failed: " \o out.error) ELSE out

\* InvoiceExtractor.extract_from_text(invoice_text), the collaborator
\* answering with response
ExtractOutcome(response, invoice_text) == Handler(TryExtract(response, invoice_text))

\* a line item as the prompt asks for it
GoodItem ==
    [description |-> JText("Widget"), quantity |-> JNumber(100),
     unit_price |-> JNumber(10000), amount |-> JNumber(10000)]

\* an object as the prompt asks for it, with n line items
GoodObject(n) ==
    [invoice_number |-> JText("INV-1"), invoice_date |-> JText("2024-01-15"),
     due_date |-> JText("2024-02-14"), vendor_name |-> JText("Acme"),
     vendor_abn |-> JText("12 345 678 901"), customer_name |-> JText("Buyer"),
     line_items |-> JArray([i \in 1..n |-> GoodItem]),
     subtotal |-> JNumber(n * 10000), tax_amount |-> JNumber(n * 1000),
     total_amount |-> JNumber(n * 11000)]

\* what a key may hold instead: nothing, null, an empty text, a text that
\* spells a number, a text that does not, a number, an empty array
OtherValues ==
    {JMissing, JNull, JText(""), JText("110.00"), JText("N/A"), JNumber(0),
     JArray(<<>>)}

\* a defect: the key of the object (item 0) or of its i-th line item holds
\* val instead; no key stands for no defect
NoDefect == [item |-> 0, key |-> "", val |-> JNull]

\* every single defect of an object with n line items
Defects(n) ==
    {NoDefect}
    \cup {[item |-> 0, key |-> k, val |-> v] : k \in InvoiceKeys, v \in OtherValues}
    \cup {[item |-> i, key |-> ItemKeys[k], val |-> v] :
             i \in 1..n, k \in 1..4, v \in OtherValues \ {JArray(<<>>)}}

\* a key of the object that is not there or null
Gaps == {NoDefect} \cup {[item |-> 0, key |-> k, val |-> v] : k \in InvoiceKeys, v \in {JMissing, JNull}}

Apply(obj, d) ==
    IF d.key = "" THEN obj
    ELSE IF d.item = 0 THEN [obj EXCEPT ![d.key] = d.val]
    ELSE IF obj.line_items.t = "array" /\ d.item <= Len(obj.line_items.xs)
    THEN [obj EXCEPT !.line_items.xs[d.item][d.key] = d.val]
    ELSE obj

\* the good objects, those with one defect, and those with a gap besides
Objects ==
    UNION {{Apply(Apply(GoodObject(n), d1), d2) : d1 \in Defects(n), d2 \in Gaps} :
              n \in 0..MaxItems}

\* what the collaborator may do: raise, answer with text that is no JSON,
\* answer with a JSON object
Responses ==
    {[kind |-> k, data |-> GoodObject(0)] : k \in {"raise", "text"}}
    \cup {[kind |-> "object", data |-> o] : o \in Objects}

InvoiceTexts == {"TAX INVOICE INV-1 ...", "not an invoice"}

\* extract_from_text is called with a text and returns or raises
ExtractFromText ==
    /\ pc = "idle"
    /\ \E text \in InvoiceTexts :
         \E r \in Responses :
            /\ doc' = [invoice_text |-> text, response |-> r]
            /\ result' = ExtractOutcome(r, text)
    /\ pc' = "extraction_over"
    /\ UNCHANGED <<processed_invoices, validated, seen_before, dropped, invoice, reply,
                   rule_validation, ai_validation, appVars, concVars>>
    /\ UNCHANGED histVars

ExtractNext == ExtractFromText

ExtractSpec == Init /\ [][ExtractNext]_vars

----------------------------------------------------------------------------
(* Properties                                                              *)

\* a validate call has just returned to the caller
AfterValidate == pc \in {"validated", "smart_validated"}

HasKind(msgs, kind) == \E i \in 1..Len(msgs) : msgs[i].kind = kind

Contains(msgs, m) == \E i \in 1..Len(msgs) : msgs[i] = m

\* C1: from a fresh or just reset validator, the first validate call for an
\* invoice number returns no DUPLICATE issue, and every later call for the
\* same number returns "DUPLICATE: Invoice <number> already processed" and
\* is_valid = false, whatever the other fields are.
C1_DuplicateOnSecondCall ==
    AfterValidate =>
        /\ ~seen_before => ~HasKind(rule_validation.issues, "DUPLICATE")
        /\ seen_before =>
              /\ Contains(rule_validation.issues,
                          Msg("DUPLICATE", <<invoice.invoice_number>>, <<>>))
              /\ ~rule_validation.is_valid

\* C1 witness: a second call for a number, on an invoice that has no other
\* issue, came back with the DUPLICATE issue
C1_Witness ==
    /\ pc = "validated"
    /\ seen_before
    /\ Len(rule_validation.issues) = 1
    /\ rule_validation.issues[1].kind = "DUPLICATE"

\* C2: when the classifier call raises or its output is not JSON, the
\* analysis step raises nothing and returns is_valid = true, issues = [],
\* warnings = [].
C2_AnalysisDegradesToEmpty ==
    (pc = "smart_validated" /\ reply.kind \in {"raise", "text"})
        => ai_validation = Returned(EmptyValidation)

\* C2 witness: the collaborator was unreachable during a SmartValidator call
C2_Witness ==
    /\ pc = "smart_validated"
    /\ reply.kind = "raise"
    /\ ai_validation.status = "returned"

Distinct(xs) == \A i, j \in 1..Len(xs) : i # j => xs[i] # xs[j]

Elements(xs) == {xs[i] : i \in 1..Len(xs)}

FirstIndex(xs, m) == CHOOSE i \in 1..Len(xs) : xs[i] = m /\ \A j \in 1..(i - 1) : xs[j] # m

\* out is xs with every later repetition removed, first occurrences in order
KeepsFirstOccurrences(out, xs) ==
    /\ Distinct(out)
    /\ Elements(out) = Elements(xs)
    /\ \A i, j \in 1..Len(out) : i < j => FirstIndex(xs, out[i]) < FirstIndex(xs, out[j])

\* the classifier was unreachable or its output was not JSON
ClassifierUnavailable == pc = "smart_validated" /\ reply.kind \in {"raise", "text"}

\* C3 as stated: with the classifier unavailable the combined result is the
\* rule validator's result unchanged (same issues, warnings and is_valid),
\* also when the rule result repeats a message.
C3_Original == ClassifierUnavailable => result = Returned(rule_validation)

\* C3 amended: with the classifier unavailable the combined result has the
\* rule result's is_valid, and its issues and warnings are the rule result's
\* with later repetitions of a message removed; it equals the rule result
\* when the rule result repeats no message.
C3_UnavailableGivesRuleResultDeduplicated ==
    ClassifierUnavailable =>
        /\ result.status = "returned"
        /\ result.value.is_valid = rule_validation.is_valid
        /\ KeepsFirstOccurrences(result.value.issues, rule_validation.issues)
        /\ KeepsFirstOccurrences(result.value.warnings, rule_validation.warnings)
        /\ (Distinct(rule_validation.issues) /\ Distinct(rule_validation.warnings))
              => result.value = rule_validation

\* C3 witness: the classifier was unavailable and the rule result had two
\* identical line item messages, of which the combined result kept one
C3_Witness ==
    /\ ClassifierUnavailable
    /\ ~Distinct(rule_validation.issues)
    /\ result.status = "returned"
    /\ Len(result.value.issues) < Len(rule_validation.issues)

\* C4 as stated: whatever the collaborator does, SmartValidator.validate
\* returns a result that contains the rule validator's issues and warnings,
\* and no error reaches the caller.
C4_Original ==
    pc = "smart_validated" =>
        /\ result.status = "returned"
        /\ \A i \in 1..Len(rule_validation.issues) :
              Contains(result.value.issues, rule_validation.issues[i])
        /\ \A i \in 1..Len(rule_validation.warnings) :
              Contains(result.value.warnings, rule_validation.warnings[i])

\* the combination went through
Combined == pc = "smart_validated" /\ result.status = "returned"

\* C5: the combined issues are the rule issues followed by the semantic
\* issues with every later repetition removed and first occurrences in
\* order (each input string once, no other string); same for the warnings.
C5_CombinedListsKeepFirstOccurrences ==
    Combined =>
        /\ KeepsFirstOccurrences(result.value.issues,
                                 rule_validation.issues \o ai_validation.value.issues.v)
        /\ KeepsFirstOccurrences(result.value.warnings,
                                 rule_validation.warnings \o ai_validation.value.warnings.v)

\* C5 witness: the classifier repeated an issue of the rule validator and
\* one of its own, and the combined list is shorter than the two together
C5_Witness ==
    /\ Combined
    /\ \E i \in 1..Len(rule_validation.issues) :
          Contains(ai_validation.value.issues.v, rule_validation.issues[i])
    /\ ~Distinct(ai_validation.value.issues.v)
    /\ Len(result.value.issues) + 2
          <= Len(rule_validation.issues) + Len(ai_validation.value.issues.v)

\* C6: the combined is_valid is (combined issues is empty), which is true
\* exactly when the rule result and the semantic result both have no
\* issues; warnings do not change it.
C6_CombinedVerdict ==
    Combined =>
        /\ result.value.is_valid = (result.value.issues = <<>>)
        /\ result.value.is_valid =
              (rule_validation.issues = <<>> /\ ai_validation.value.issues.v = <<>>)

\* C6 witness: a rule-valid invoice made invalid by a semantic issue
C6_Witness ==
    /\ Combined
    /\ rule_validation.is_valid
    /\ Len(ai_validation.value.issues.v) >= 1
    /\ ~result.value.is_valid

----------------------------------------------------------------------------
(* Properties of the rule validator, stated on the decimal numbers of the  *)
(* document that was validated.                                            *)

Abs(n) == IF n < 0 THEN 0 - n ELSE n

\* line items sum against the subtotal, in cents
SubtotalDiscrepancy == Abs(SumCents(doc.line_items) - doc.subtotal)

\* tax against 10% of the subtotal, in tenths of a cent
TaxDiscrepancy10 == Abs(10 * doc.tax_amount - doc.subtotal)

\* subtotal + tax against the total, in cents
TotalDiscrepancy == Abs(doc.subtotal + doc.tax_amount - doc.total_amount)

\* quantity x unit_price against the amount, in hundredths of a cent
ItemDiscrepancy100(item) == Abs(item.quantity * item.unit_price - 100 * item.amount)

\* the description and the amount, in cents, that each message of a kind shows last
Shown(msgs, kind) ==
    LET sel == SelectSeq(msgs, LAMBDA m : m.kind = kind)
    IN  [i \in 1..Len(sel) |-> <<sel[i].text[1], sel[i].nums[Len(sel[i].nums)]>>]

\* the description and the amount of the items that satisfy P
ItemsWhere(P(_)) ==
    LET sel == SelectSeq(doc.line_items, P)
    IN  [i \in 1..Len(sel) |-> <<sel[i].description, sel[i].amount>>]

RECURSIVE IsSubseq(_, _)
IsSubseq(a, b) ==
    IF a = <<>> THEN TRUE
    ELSE IF b = <<>> THEN FALSE
    ELSE IF Head(a) = Head(b) THEN IsSubseq(Tail(a), Tail(b))
    ELSE IsSubseq(a, Tail(b))

IssueRank(kind) ==
    CASE kind = "Missing invoice number" -> 1
      [] kind = "Missing vendor name" -> 2
      [] kind = "Missing total amount" -> 3
      [] kind = "DUPLICATE" -> 4
      [] kind = "Subtotal mismatch" -> 5
      [] kind = "Total mismatch" -> 6
      [] kind = "Line item math error" -> 7
      [] OTHER -> 0

WarningRank(kind) ==
    CASE kind = "Tax amount" -> 1
      [] kind = "HIGH VALUE" -> 2
      [] kind = "High value line item" -> 3
      [] kind = "ABN format may be invalid" -> 4
      [] kind = "Missing date information" -> 5
      [] OTHER -> 0

InRankOrder(msgs, Rank(_)) ==
    /\ \A i \in 1..Len(msgs) : Rank(msgs[i].kind) > 0
    /\ \A i, j \in 1..Len(msgs) : i < j => Rank(msgs[i].kind) <= Rank(msgs[j].kind)

DigitCount(abn) == Cardinality({i \in 1..Len(abn) : abn[i] \in Digits})

\* C7: the rule validator's is_valid is true exactly when its issues list
\* is empty, however many warnings (tax, high value, ABN, dates) it carries.
C7_ValidIffNoIssues ==
    pc = "validated" =>
        rule_validation.is_valid = (rule_validation.issues = <<>>)

\* C7 witness: a valid invoice with a tax, a high value, an ABN and a date
\* warning
C7_Witness ==
    /\ pc = "validated"
    /\ rule_validation.is_valid
    /\ HasKind(rule_validation.warnings, "Tax amount")
    /\ HasKind(rule_validation.warnings, "HIGH VALUE")
    /\ HasKind(rule_validation.warnings, "ABN format may be invalid")
    /\ HasKind(rule_validation.warnings, "Missing date information")

\* C8: validate never short-circuits.  Every check leaves its message when
\* its condition holds, whatever the earlier checks found, and the issues
\* come in check order (required fields, duplicate, subtotal, total, line
\* item errors in item order), the warnings in check order (tax, high value
\* total, high value items in item order, ABN, dates).  The reconciliation
\* checks are taken where the discrepancy is clearly within or clearly
\* beyond one cent.
C8_AllChecksRunInOrder ==
    pc = "validated" =>
        LET issues   == rule_validation.issues
            warnings == rule_validation.warnings
        IN  /\ InRankOrder(issues, IssueRank)
            /\ InRankOrder(warnings, WarningRank)
            /\ HasKind(issues, "Missing invoice number") = (doc.invoice_number \in {"", None})
            /\ HasKind(issues, "Missing vendor name") = (doc.vendor_name \in {"", None})
            /\ HasKind(issues, "Missing total amount") = (doc.total_amount = 0)
            /\ HasKind(issues, "DUPLICATE") = seen_before
            /\ SubtotalDiscrepancy >= 2 => HasKind(issues, "Subtotal mismatch")
            /\ SubtotalDiscrepancy = 0 => ~HasKind(issues, "Subtotal mismatch")
            /\ TotalDiscrepancy >= 2 => HasKind(issues, "Total mismatch")
            /\ TotalDiscrepancy = 0 => ~HasKind(issues, "Total mismatch")
            /\ TaxDiscrepancy10 > 10 => HasKind(warnings, "Tax amount")
            /\ TaxDiscrepancy10 < 10 => ~HasKind(warnings, "Tax amount")
            /\ HasKind(warnings, "HIGH VALUE") = (doc.total_amount > MaxTotalCents)
            /\ IsSubseq(ItemsWhere(LAMBDA it : ItemDiscrepancy100(it) >= 200),
                        Shown(issues, "Line item math error"))
            /\ IsSubseq(Shown(issues, "Line item math error"),
                        ItemsWhere(LAMBDA it : ItemDiscrepancy100(it) > 0))
            /\ Shown(warnings, "High value line item")
                  = ItemsWhere(LAMBDA it : it.amount > MaxLineItemCents)
            /\ HasKind(warnings, "ABN format may be invalid")
                  = (doc.vendor_abn # NoAbn /\ doc.vendor_abn # <<>>
                     /\ DigitCount(doc.vendor_abn) # 11)
            /\ HasKind(warnings, "Missing date information")
                  = (doc.invoice_date = "" \/ doc.due_date = "")

\* C8 witness: an invoice on which the first check already found issues
\* and the last check still left its warning, with messages of every kind
C8_Witness ==
    /\ pc = "validated"
    /\ \A k \in {"Missing invoice number", "Missing vendor name", "Subtotal mismatch",
                 "Total mismatch", "Line item math error"} :
          HasKind(rule_validation.issues, k)
    /\ \A k \in {"Tax amount", "HIGH VALUE", "High value line item",
                 "ABN format may be invalid", "Missing date information"} :
          HasKind(rule_validation.warnings, k)
    /\ Len(Shown(rule_validation.issues, "Line item math error")) = 1
    /\ Len(doc.line_items) = 2

\* C9 as stated: in each reconciliation check a discrepancy of exactly 0.01
\* produces no issue or warning and a discrepancy of 0.02 produces one.
C9_Original ==
    pc = "validated" =>
        LET issues   == rule_validation.issues
            warnings == rule_validation.warnings
        IN  /\ SubtotalDiscrepancy = 1 => ~HasKind(issues, "Subtotal mismatch")
            /\ SubtotalDiscrepancy = 2 => HasKind(issues, "Subtotal mismatch")
            /\ TaxDiscrepancy10 = 10 => ~HasKind(warnings, "Tax amount")
            /\ TaxDiscrepancy10 = 20 => HasKind(warnings, "Tax amount")
            /\ TotalDiscrepancy = 1 => ~HasKind(issues, "Total mismatch")
            /\ TotalDiscrepancy = 2 => HasKind(issues, "Total mismatch")
            /\ IsSubseq(ItemsWhere(LAMBDA it : ItemDiscrepancy100(it) = 200),
                        Shown(issues, "Line item math error"))
            /\ \A i \in 1..Len(doc.line_items) :
                  ItemDiscrepancy100(doc.line_items[i]) = 100 =>
                     \A j \in 1..Len(Shown(issues, "Line item math error")) :
                        Shown(issues, "Line item math error")[j]
                           # <<doc.line_items[i].description, doc.line_items[i].amount>>

\* C10: the HIGH VALUE warning is added exactly when total_amount is
\* greater than 50,000.00 (50,000.00 itself does not warn, 50,000.01 does);
\* it is a warning, and is_valid stays (issues is empty).
C10_HighValueAboveThreshold ==
    pc = "validated" =>
        /\ HasKind(rule_validation.warnings, "HIGH VALUE")
              = (doc.total_amount > MaxTotalCents)
        /\ ~HasKind(rule_validation.issues, "HIGH VALUE")
        /\ rule_validation.is_valid = (rule_validation.issues = <<>>)

\* C10 witness: a total of 50,000.01 got the warning on an invoice that
\* is valid
C10_Witness ==
    /\ pc = "validated"
    /\ doc.total_amount = MaxTotalCents + 1
    /\ HasKind(rule_validation.warnings, "HIGH VALUE")
    /\ rule_validation.is_valid

\* vendor_abn is present: neither null nor the empty text
AbnPresent == doc.vendor_abn # NoAbn /\ doc.vendor_abn # <<>>

\* C11: the ABN check produces the warning "ABN format may be invalid"
\* exactly when vendor_abn is present and the number of its digit
\* characters differs from 11, whatever the spacing; the warning shows the
\* ABN as given, appears once, and the check adds no issue.
C11_AbnWarning ==
    pc = "validated" =>
        LET shown == SelectSeq(rule_validation.warnings,
                               LAMBDA m : m.kind = "ABN format may be invalid")
        IN  /\ (shown # <<>>) = (AbnPresent /\ DigitCount(doc.vendor_abn) # 11)
            /\ Len(shown) <= 1
            /\ \A i \in 1..Len(shown) : shown[i].text = doc.vendor_abn
            /\ ~HasKind(rule_validation.issues, "ABN format may be invalid")

\* C11 witness: an ABN of 11 digits written with a prefix and hyphens
\* passed without the warning on an invoice with no other message
C11_Witness ==
    /\ pc = "validated"
    /\ AbnPresent
    /\ Len(doc.vendor_abn) > 14
    /\ DigitCount(doc.vendor_abn) = 11
    /\ rule_validation.issues = <<>>
    /\ rule_validation.warnings = <<>>

\* the document has no defect other than, possibly, its tax amount
OnlyTaxMayBeOff ==
    /\ doc.invoice_number \notin {"", None} /\ doc.vendor_name \notin {"", None}
    /\ doc.total_amount # 0
    /\ ~seen_before
    /\ SubtotalDiscrepancy = 0
    /\ TotalDiscrepancy = 0
    /\ \A i \in 1..Len(doc.line_items) : ItemDiscrepancy100(doc.line_items[i]) = 0

\* C12: a tax_amount that differs from 10% of the subtotal by more than the
\* tolerance produces the tax warning and never an issue; an invoice whose
\* only defect is the tax amount, its total still being subtotal + tax, is
\* valid.
C12_TaxMismatchIsWarningOnly ==
    pc = "validated" =>
        /\ ~HasKind(rule_validation.issues, "Tax amount")
        /\ TaxDiscrepancy10 > 10 => HasKind(rule_validation.warnings, "Tax amount")
        /\ (OnlyTaxMayBeOff /\ TaxDiscrepancy10 > 10) =>
              /\ rule_validation.is_valid
              /\ rule_validation.issues = <<>>

\* C12 witness: an invoice whose tax is off by about two cents and that has
\* no other defect came back valid with the tax warning alone
C12_Witness ==
    /\ pc = "validated"
    /\ OnlyTaxMayBeOff
    /\ TaxDiscrepancy10 > 10
    /\ Len(doc.line_items) >= 1
    /\ rule_validation.is_valid
    /\ Len(rule_validation.warnings) = 1
    /\ rule_validation.warnings[1].kind = "Tax amount"

\* the duplicate set of a newly constructed validator that has received
\* the validate calls made since the last reset, before the last of them
FreshSetBefore ==
    IF seen_before THEN validated ELSE validated \ {invoice.invoice_number}

\* C13: reset makes the validator behave like a newly constructed one.  The
\* result of every validate call is the result a new validator gives for the
\* same invoice after the calls made since the last reset; the first call
\* after a reset returns what a new validator returns for that invoice, with
\* no DUPLICATE issue for a number seen before the reset.
C13_ResetGivesFreshValidator ==
    AfterValidate =>
        /\ rule_validation = validate(invoice, FreshSetBefore).result
        /\ validated = {invoice.invoice_number} /\ ~seen_before =>
              /\ rule_validation = validate(invoice, {}).result
              /\ ~HasKind(rule_validation.issues, "DUPLICATE")

\* C13 witness: the first validate call after a reset was for a number that
\* the reset had removed, and it came back valid
C13_Witness ==
    /\ pc = "validated"
    /\ validated = {invoice.invoice_number}
    /\ ~seen_before
    /\ invoice.invoice_number \in dropped
    /\ rule_validation.is_valid

\* C14: a failure while extracting or validating one file does not end the
\* batch.  Every file the loop has gone through has its own outcome, a
\* ValidationResult or a failure message naming that file, whatever the
\* files before it ended with; and when the run is over every file of the
\* batch has one.
C14_BatchSurvivesFailures ==
    /\ Len(outcomes) = idx
    /\ successful + failed = idx
    /\ idx <= Len(uploaded_files)
    /\ \A i \in 1..Len(outcomes) :
          \/ /\ outcomes[i].status = "returned"
             /\ outcomes[i].value.is_valid \in BOOLEAN
          \/ /\ outcomes[i].status = "failed"
             /\ outcomes[i].filename = uploaded_files[i].filename
    /\ pc = "idle" => Len(outcomes) = Len(uploaded_files)

\* C14 witness: a run is over in which the first file failed in validation
\* and the second file got its ValidationResult
C14_Witness ==
    /\ pc = "idle"
    /\ Len(outcomes) = 2
    /\ outcomes[1].status = "failed"
    /\ uploaded_files[1].extraction = "invoice"
    /\ outcomes[2].status = "returned"

\* C15 as stated: the check-and-insert of the duplicate set is serialized,
\* so of the validate calls made for one number on one validator exactly
\* one is not flagged: two calls that ran concurrently and have both
\* returned are never both unflagged.
C15_Original ==
    /\ \A n \in Numbers : passed[n] <= 1
    /\ \A t, u \in Threads :
          (t # u /\ calls[t].pc = "returned" /\ calls[u].pc = "returned"
             /\ calls[t].number = calls[u].number)
          => (calls[t].flagged \/ calls[u].flagged)

\* a validate call of either validator returns in this step
ValidateStep == pc = "extracted" /\ pc' \in {"validated", "smart_validated"}

\* C16: the duplicate set is exactly the set of invoice numbers passed to
\* validate since the last reset or since construction.  A validate call
\* for a new number adds that number and nothing else; a call for a
\* recorded number flags it and leaves the set unchanged; and a step that
\* removes a number is a reset, which empties the set.
C16_SetIsNumbersSinceReset ==
    /\ [](processed_invoices = validated)
    /\ [][/\ ValidateStep /\ invoice.invoice_number \notin processed_invoices =>
               /\ processed_invoices' = processed_invoices \cup {invoice.invoice_number}
               /\ ~HasKind(rule_validation'.issues, "DUPLICATE")
          /\ ValidateStep /\ invoice.invoice_number \in processed_invoices =>
               /\ processed_invoices' = processed_invoices
               /\ HasKind(rule_validation'.issues, "DUPLICATE")
          /\ ~(processed_invoices \subseteq processed_invoices') =>
               /\ pc = "idle" /\ pc' = "idle"
               /\ processed_invoices' = {}
               /\ dropped' = processed_invoices]_vars

\* C16 witness: after a reset, two numbers are recorded and the last call
\* was for one of them, already recorded
C16_Witness ==
    /\ pc = "validated"
    /\ seen_before
    /\ dropped # {}
    /\ processed_invoices = {"", "INV-1"}
    /\ validated = {"", "INV-1"}
    /\ HasKind(rule_validation.issues, "DUPLICATE")

\* C17 as stated: the duplicate set outlives a Process run.  Every file of
\* the current run that was validated and whose invoice number was validated
\* in an earlier run of the session carries the DUPLICATE issue.
C17_Original ==
    \A i \in 1..Len(outcomes) :
        (/\ outcomes[i].status = "returned"
         /\ uploaded_files[i].doc.invoice_number \in earlier_numbers)
        => HasKind(outcomes[i].value.issues, "DUPLICATE")

\* how many messages of a kind a list holds
CountKind(msgs, kind) == Cardinality({i \in 1..Len(msgs) : msgs[i].kind = kind})

\* the required fields that the document leaves out: a text that is empty
\* or null, a total of zero
MissingFields ==
    (IF doc.invoice_number \in {"", None} THEN {"Missing invoice number"} ELSE {})
    \cup (IF doc.vendor_name \in {"", None} THEN {"Missing vendor name"} ELSE {})
    \cup (IF doc.total_amount = 0 THEN {"Missing total amount"} ELSE {})

RequiredKinds == {"Missing invoice number", "Missing vendor name", "Missing total amount"}

\* C18: the required-field check adds one issue of its own for each of
\* invoice_number, vendor_name and total_amount that is missing, and none
\* for a field that is given: an invoice missing all three gets three
\* issues, and an invoice whose total is zero is invalid even when all its
\* arithmetic reconciles.
C18_OneIssuePerMissingField ==
    pc = "validated" =>
        /\ \A k \in RequiredKinds :
              CountKind(rule_validation.issues, k) = (IF k \in MissingFields THEN 1 ELSE 0)
        /\ CountKind(rule_validation.warnings, "Missing invoice number")
             + CountKind(rule_validation.warnings, "Missing vendor name")
             + CountKind(rule_validation.warnings, "Missing total amount") = 0
        /\ Cardinality(MissingFields) = 3 =>
              /\ Len(rule_validation.issues) >= 3
              /\ [i \in 1..3 |-> rule_validation.issues[i].kind]
                   = <<"Missing invoice number", "Missing vendor name", "Missing total amount">>
        /\ doc.total_amount = 0 => ~rule_validation.is_valid

\* C18 witness: an invoice with a null number, a null vendor and a total of
\* zero that reconciles has exactly the three issues
C18_Witness ==
    /\ pc = "validated"
    /\ doc.invoice_number = None
    /\ doc.vendor_name = None
    /\ doc.total_amount = 0
    /\ SubtotalDiscrepancy = 0 /\ TotalDiscrepancy = 0 /\ TaxDiscrepancy10 = 0
    /\ Len(rule_validation.issues) = 3
    /\ ~rule_validation.is_valid

\* the item's amount is off by more than a cent
ItemOff(item) == ItemDiscrepancy100(item) > 100

\* the item's amount is off at all
ItemInexact(item) == ItemDiscrepancy100(item) > 0

\* C19: arithmetic mismatches are reported independently.  A subtotal, a
\* total and each line item that is off by more than the tolerance add an
\* issue of their own, whatever the other checks found: the 'Line item math
\* error' issues name, in order, every item that is off by more than a cent
\* and only items that are off, so that their number is the number of
\* mismatching items, and a subtotal issue does not suppress the total issue.
\* A check whose figures agree adds nothing.
C19_MismatchesReportedIndependently ==
    pc = "validated" =>
        /\ CountKind(rule_validation.issues, "Subtotal mismatch")
             \in (IF SubtotalDiscrepancy > 1 THEN {1}
                  ELSE IF SubtotalDiscrepancy = 0 THEN {0} ELSE {0, 1})
        /\ CountKind(rule_validation.issues, "Total mismatch")
             \in (IF TotalDiscrepancy > 1 THEN {1}
                  ELSE IF TotalDiscrepancy = 0 THEN {0} ELSE {0, 1})
        /\ IsSubseq(ItemsWhere(ItemOff),
                    Shown(rule_validation.issues, "Line item math error"))
        /\ IsSubseq(Shown(rule_validation.issues, "Line item math error"),
                    ItemsWhere(ItemInexact))
        /\ ItemsWhere(ItemOff) = ItemsWhere(ItemInexact) =>
              CountKind(rule_validation.issues, "Line item math error")
                 = Len(ItemsWhere(ItemOff))

\* C19 witness: a document whose two line items, subtotal and total are all
\* off by two cents got four arithmetic issues, the subtotal's and the
\* total's among them
C19_Witness ==
    /\ pc = "validated"
    /\ Len(doc.line_items) = 2
    /\ Len(ItemsWhere(ItemOff)) = 2
    /\ SubtotalDiscrepancy = 2
    /\ TotalDiscrepancy = 2
    /\ CountKind(rule_validation.issues, "Line item math error") = 2
    /\ CountKind(rule_validation.issues, "Subtotal mismatch") = 1
    /\ CountKind(rule_validation.issues, "Total mismatch") = 1

\* the document has no defect: number and vendor given, a total that is not
\* zero and at most 50,000.00, every item exact and at most 10,000.00, a
\* subtotal, a tax of 10% and a total that reconcile, an ABN that is absent
\* or has 11 digits, both dates, and a number not seen before
Clean ==
    /\ doc.invoice_number \notin {"", None}
    /\ doc.vendor_name \notin {"", None}
    /\ doc.total_amount # 0
    /\ doc.total_amount <= MaxTotalCents
    /\ \A i \in 1..Len(doc.line_items) :
          /\ doc.line_items[i].amount <= MaxLineItemCents
          /\ ItemDiscrepancy100(doc.line_items[i]) = 0
    /\ SubtotalDiscrepancy = 0
    /\ TaxDiscrepancy10 = 0
    /\ TotalDiscrepancy = 0
    /\ doc.vendor_abn = NoAbn \/ DigitCount(doc.vendor_abn) = 11
    /\ doc.invoice_date # "" /\ doc.due_date # ""
    /\ ~seen_before

\* C20: the rule validator gives no false positive: for an invoice without
\* any defect it returns no issue, no warning and is_valid = true.
C20_NoFalsePositives ==
    (pc = "validated" /\ Clean) =>
        /\ rule_validation.issues = <<>>
        /\ rule_validation.warnings = <<>>
        /\ rule_validation.is_valid

\* C20 witness: items of 500.00 and 1500.00, subtotal 2000.00, tax 200.00,
\* total 2200.00, validated without issue or warning
C20_Witness ==
    /\ pc = "validated"
    /\ Clean
    /\ Len(doc.line_items) = 2
    /\ doc.line_items[1].amount = 50000
    /\ doc.line_items[2].amount = 150000
    /\ doc.subtotal = 200000 /\ doc.tax_amount = 20000 /\ doc.total_amount = 220000
    /\ rule_validation = ValidationResult(TRUE, <<>>, <<>>)

\* a second case of C20: seven stamps and a server at the line item limit,
\* with an ABN of 11 digits
C20_WitnessAtLimit ==
    /\ pc = "validated"
    /\ Clean
    /\ doc.vendor_abn # NoAbn
    /\ \E i \in 1..Len(doc.line_items) : doc.line_items[i].amount = MaxLineItemCents
    /\ \E i \in 1..Len(doc.line_items) : doc.line_items[i].amount = 70
    /\ rule_validation = ValidationResult(TRUE, <<>>, <<>>)

\* the response is a JSON object that has every key extract_from_text
\* requires, in the invoice and in each line item
HasRequiredKeys ==
    /\ doc.response.kind = "object"
    /\ \A key \in RequiredKeys : doc.response.data[key].t # "missing"
    /\ doc.response.data.line_items.t = "array" =>
          \A i \in 1..Len(doc.response.data.line_items.xs) :
             \A k \in 1..4 : doc.response.data.line_items.xs[i][ItemKeys[k]].t # "missing"

IsFloat(x) == DOMAIN x = {"neg", "m", "e"}

\* C21: extract_from_text has exactly two outcomes.  It returns a complete
\* Invoice (every field set, line_items a list that may be empty, each line
\* item complete with numeric figures, vendor_abn possibly null, the money
\* fields numeric, raw_text the input text), or it raises an extraction
\* failure and returns nothing.  A collaborator error, output that is no
\* JSON and an object that lacks a required key (line_items and the keys of
\* a line item included) always raise.
C21_InvoiceOrFailure ==
    pc = "extraction_over" =>
        /\ result.status \in {"returned", "raised"}
        /\ result.status = "raised" =>
              /\ DOMAIN result = {"status", "error"}
              /\ \E cause \in {TryExtract(doc.response, doc.invoice_text)} :
                    /\ cause.status = "raised"
                    /\ result.error = "Extraction failed: " \o cause.error
        /\ result.status = "returned" =>
              /\ DOMAIN result.value = InvoiceKeys \cup {"raw_text"}
              /\ result.value.raw_text = doc.invoice_text
              /\ IsFloat(result.value.subtotal)
              /\ IsFloat(result.value.tax_amount)
              /\ IsFloat(result.value.total_amount)
              /\ \A i \in 1..Len(result.value.line_items) :
                    /\ DOMAIN result.value.line_items[i]
                          = {"description", "quantity", "unit_price", "amount"}
                    /\ IsFloat(result.value.line_items[i].quantity)
                    /\ IsFloat(result.value.line_items[i].unit_price)
                    /\ IsFloat(result.value.line_items[i].amount)
              /\ result.value.vendor_abn
                    = (IF doc.response.data.vendor_abn.t = "missing" THEN JNull
                       ELSE doc.response.data.vendor_abn)
              /\ \A key \in {"invoice_number", "invoice_date", "due_date", "vendor_name",
                             "customer_name"} :
                    result.value[key] = doc.response.data[key]
              /\ HasRequiredKeys
        /\ ~HasRequiredKeys => result.status = "raised"

\* C21 witness: an object without vendor_abn and with an empty line_items
\* list gave a complete Invoice with a null ABN and no line items
C21_Witness ==
    /\ pc = "extraction_over"
    /\ doc.response.kind = "object"
    /\ doc.response.data.vendor_abn = JMissing
    /\ doc.response.data.line_items = JArray(<<>>)
    /\ result.status = "returned"
    /\ result.value.vendor_abn = JNull
    /\ result.value.line_items = <<>>
    /\ result.value.raw_text = "not an invoice"

\* a second case of C21: an object without line_items raised
C21_WitnessMissingLineItems ==
    /\ pc = "extraction_over"
    /\ doc.response.kind = "object"
    /\ doc.response.data.line_items = JMissing
    /\ result = Raised("Extraction failed: 'line_items'")

\* C22: in SmartValidator.validate both stages run for every invoice, the
\* rule validator first.  The rule result is the one the rule validator
\* gives on the set as it was before the call, whatever the classifier
\* answers; the classifier stage has run even when the rule validator found
\* issues; and after the call the number is in the duplicate set whether
\* the classifier succeeded, reported findings or failed, and whether the
\* call returned or raised.
C22_BothStagesRuleFirst ==
    pc = "smart_validated" =>
        /\ rule_validation = validate(invoice, FreshSetBefore).result
        /\ HasKind(rule_validation.issues, "DUPLICATE") = seen_before
        /\ ai_validation.status \in {"returned", "raised"}
        /\ result.status \in {"returned", "raised"}
        /\ invoice.invoice_number \in processed_invoices
        /\ processed_invoices = validated
        /\ processed_invoices = FreshSetBefore \cup {invoice.invoice_number}

\* C22 witness: the classifier call failed on an invoice that the rule
\* validator had found invalid; both stages ran and the new number is
\* recorded
C22_Witness ==
    /\ pc = "smart_validated"
    /\ reply.kind = "raise"
    /\ ~seen_before
    /\ ~rule_validation.is_valid
    /\ ai_validation = Returned(EmptyValidation)
    /\ invoice.invoice_number = "INV-1"
    /\ "INV-1" \in processed_invoices

\* C23: validate records a new invoice number whatever the verdict.  A
\* number whose first validation came back invalid (missing fields, an
\* arithmetic mismatch, a critical issue of the classifier) is in the
\* duplicate set from then on, and a later invoice with that number, even
\* one without any other defect, gets the DUPLICATE issue and is invalid.
C23_InvalidInvoiceConsumesNumber ==
    /\ rejected \subseteq processed_invoices
    /\ AfterValidate =>
          /\ invoice.invoice_number \in processed_invoices
          /\ (invoice.invoice_number \in rejected /\ seen_before) =>
                /\ HasKind(rule_validation.issues, "DUPLICATE")
                /\ ~rule_validation.is_valid
                /\ result.status = "returned" =>
                      /\ HasKind(result.value.issues, "DUPLICATE")
                      /\ ~result.value.is_valid

\* C23 witness: a number was first validated on an invalid invoice; the
\* corrected invoice with the same number has DUPLICATE as its only issue
C23_Witness ==
    /\ pc = "validated"
    /\ seen_before
    /\ invoice.invoice_number = "INV-1"
    /\ "INV-1" \in rejected
    /\ doc.vendor_name = "Acme"
    /\ SubtotalDiscrepancy = 0
    /\ Len(rule_validation.issues) = 1
    /\ rule_validation.issues[1].kind = "DUPLICATE"
    /\ rule_validation.warnings = <<>>

\* a second case of C23: the first validation was invalid only by a
\* critical issue of the classifier
C23_WitnessSemantic ==
    /\ pc = "smart_validated"
    /\ ~seen_before
    /\ rule_validation.is_valid
    /\ result.status = "returned"
    /\ ~result.value.is_valid
    /\ invoice.invoice_number \in rejected
    /\ invoice.invoice_number \in processed_invoices

\* the invoice numbers that count as missing: the empty text and null
MissingNumbers == {"", None}

\* C24 as stated: the first invoice without a number gets 'Missing invoice
\* number' and no DUPLICATE issue, and every later invoice without a number
\* on the same validator gets both.
C24_Original ==
    (AfterValidate /\ doc.invoice_number \in MissingNumbers) =>
        /\ HasKind(rule_validation.issues, "Missing invoice number")
        /\ HasKind(rule_validation.issues, "DUPLICATE")
             = (FreshSetBefore \cap MissingNumbers # {})

\* C24: a missing invoice number is recorded in the duplicate set like any
\* other value, the empty text and null being two values.  An invoice
\* without a number always gets 'Missing invoice number'; it gets the
\* DUPLICATE issue as well exactly when the same value (empty after empty,
\* null after null) was validated before on the validator; the first
\* invoice with an empty number after invoices with a null number only, or
\* the other way round, gets 'Missing invoice number' alone.
C24_MissingNumberIsRecordedAsValue ==
    (AfterValidate /\ doc.invoice_number \in MissingNumbers) =>
        /\ CountKind(rule_validation.issues, "Missing invoice number") = 1
        /\ rule_validation.issues[1].kind = "Missing invoice number"
        /\ CountKind(rule_validation.issues, "DUPLICATE")
             = (IF doc.invoice_number \in FreshSetBefore THEN 1 ELSE 0)
        /\ (doc.invoice_number \in FreshSetBefore) = seen_before
        /\ doc.invoice_number \in processed_invoices
        /\ HasKind(rule_validation.issues, "DUPLICATE") =>
              Contains(rule_validation.issues,
                       Msg("DUPLICATE", <<doc.invoice_number>>, <<>>))

\* C24 witness: the second invoice with a null number got both issues and
\* nothing else
C24_Witness ==
    /\ pc = "validated"
    /\ doc.invoice_number = None
    /\ seen_before
    /\ Len(rule_validation.issues) = 2
    /\ rule_validation.issues[1].kind = "Missing invoice number"
    /\ rule_validation.issues[2] = Msg("DUPLICATE", <<None>>, <<>>)

\* a second case of C24: an invoice with an empty number, validated after
\* one with a null number, got 'Missing invoice number' alone
C24_WitnessOtherValue ==
    /\ pc = "validated"
    /\ doc.invoice_number = ""
    /\ FreshSetBefore = {None}
    /\ processed_invoices = {None, ""}
    /\ Len(rule_validation.issues) = 1
    /\ rule_validation.issues[1].kind = "Missing invoice number"

\* the numbers of the files before position i + 1 of the batch that came
\* out of the extraction
ExtractedBefore(i) ==
    {uploaded_files[j].doc.invoice_number :
        j \in {k \in 1..i : uploaded_files[k].extraction # "raise"}}

\* C25: a file whose extraction fails leaves the validator's duplicate set
\* and the session's results and counters as they were, and only the files
\* that came out of the extraction make a later file of the run a
\* duplicate.
C25_FailedExtractionLeavesState ==
    [][(pc = "processing" /\ idx < Len(uploaded_files) /\ idx' = idx + 1) =>
          IF uploaded_files[idx + 1].extraction = "raise"
          THEN /\ processed_invoices' = processed_invoices
               /\ session' = session
               /\ successful' = successful
               /\ failed' = failed + 1
               /\ outcomes'[idx + 1].status = "failed"
          ELSE outcomes'[idx + 1].status = "returned" =>
                  HasKind(outcomes'[idx + 1].value.issues, "DUPLICATE")
                    = (uploaded_files[idx + 1].doc.invoice_number
                         \in ExtractedBefore(idx))]_vars

\* C25 witness: the extraction of the first file failed, and the second
\* file, which carries the same invoice number, was stored as valid
C25_Witness ==
    /\ pc = "processing"
    /\ Len(outcomes) = 2
    /\ uploaded_files[1].extraction = "raise"
    /\ uploaded_files[2].doc.invoice_number = uploaded_files[1].doc.invoice_number
    /\ outcomes[1].status = "failed"
    /\ outcomes[2].status = "returned"
    /\ outcomes[2].value.is_valid
    /\ processed_invoices = {uploaded_files[2].doc.invoice_number}
    /\ failed = 1
    /\ successful = 1

\* the stored results whose validation is valid
ValidResults == {i \in 1..Len(session.results) : session.results[i].validation.is_valid}

\* C26: after any Process runs and Clear Results, processed_count is
\* valid_count + invalid_count and the number of stored results, and
\* valid_count is the number of stored results that are valid.
C26_CountersMatchResults ==
    /\ session.processed_count = session.valid_count + session.invalid_count
    /\ session.processed_count = Len(session.results)
    /\ session.valid_count = Cardinality(ValidResults)

\* C26 witness: two runs with a failed file left three results, two of
\* them valid
C26_Witness ==
    /\ pc = "idle"
    /\ runs = 2
    /\ failed = 1
    /\ session.processed_count = 3
    /\ session.valid_count = 2
    /\ session.invalid_count = 1

\* a second case of C26: a run with a stored file has ended and Clear
\* Results has emptied the session
C26_WitnessCleared ==
    /\ pc = "idle"
    /\ successful > 0
    /\ session = NewSession

====
